---------------------------- MODULE Spec2Model ----------------------------
(***************************************************************************)
(* A model of rust-docs-mcp-server: the content-defined chunker            *)
(* (document_chunker.rs), the content hasher (fast_hash.rs), the two-tier  *)
(* embedding cache (global_cache.rs), the embedding pipeline               *)
(* (embeddings.rs), crate ingestion (server.rs), the HTML document loader  *)
(* (doc_loader.rs) and the request handler with its log notifications      *)
(* (service.rs, server.rs).                                                *)
(*                                                                         *)
(* Strings are sequences of bytes (naturals 0..255) that are valid UTF-8.  *)
(***************************************************************************)
EXTENDS Integers, Sequences, FiniteSets, TLC

VARIABLES
    \* ---- chunker (document_chunker.rs) ----
    doc,        \* the document given to chunk_document
    cp,         \* the chunker: [min, target, max]
    out,        \* what chunk_document(doc) produced, NotRun before the call
    doc2,       \* the edited document
    out2,       \* what chunk_document(doc2) produced
    \* ---- embedding cache (global_cache.rs) ----
    mem,        \* EMBEDDING_CACHE: content hash -> Option<Vec<f32>>
    disk,       \* the cache directory: file name -> Option<bytes>
    pc,         \* per thread: where it is inside get_embedding/store_embedding
    loc,        \* per thread: the locals of the call in progress
    ret,        \* per thread: the last call that returned and its result
    lastOk,     \* per key: the vector of the last store_embedding that
                \* returned Ok, none once a newer store_embedding has begun
    lastContent, \* per key: the content that store_embedding was called with
    written,    \* the keys store_embedding inserted into mem in this process
    \* ---- embedding pipeline (embeddings.rs) and ingestion (server.rs) ----
    crates,     \* SERVER_STATE.crates: crate name -> Option<CrateData>
    ipc,        \* where the ingestion task is
    cname,      \* the crate being ingested
    loaded,     \* loaded_documents
    emb,        \* embeddings: the (path, vector) pairs reused from the cache
    need,       \* documents_needing_embedding: the batch of generate_embeddings
    gnext,      \* how many documents buffer_unordered has taken from the stream
    inflight,   \* indices of the documents whose request awaits its response
    results,    \* the collected results, in completion order
    gret,       \* what generate_embeddings returned
    sent,       \* indices of the documents whose request was issued
    sentAfterErr, \* a request was issued after an Err had been collected
    storeLog,   \* the (content, vector) pairs the last ingestion wrote to the cache
    \* ---- document loader (doc_loader.rs) ----
    tree,       \* the HTML files under docs_path, in the order WalkDir yields them
    lpc,        \* "start" before process_html_documents, "done" after it returned
    kept,       \* paths_to_process
    returned,   \* the Vec<Document> returned (documents)
    \* ---- request handling and log notifications (service.rs, server.rs) ----
    stateLock,  \* the state mutex: the handler that holds it, 0 when free
    peerLock,   \* the peer mutex: the log task that holds it, 0 when free
    peer,       \* whether a peer is set
    hpc,        \* per handler task: where it is inside handle_request
    logpc,      \* per send_log call, in call order: where its spawned task is
    delivered,  \* the messages the peer received, in order of receipt
    startup,    \* whether startup_message still holds the announcement
    npeers,     \* how many times set_peer was called
    toolOk,     \* whether a tool call has returned a result
    \* ---- content hashing (fast_hash.rs) ----
    hx,         \* the string handed to compute_content_hash
    hres,       \* what was computed from it
    \* ---- the query tool (service.rs handle_request) ----
    qstate,     \* the ServerState: crate_name, documents, embeddings
    qpc,        \* where the request in progress is
    qreq,       \* the crate argument of the last request
    qbest,      \* best_match of the last request, once computed
    qcalls,     \* the OpenAI calls the last request made
    qresp,      \* the response to the last request
    \* ---- crate name matching (crate_discovery.rs) ----
    mq,         \* crate_name handed to find_matching_crate_names
    mavail,     \* available_crates handed to it
    mres,       \* what it returned
    \* ---- the crate registry and its readers (server.rs) ----
    wpc,        \* per add_crate call in progress: the CrateData it built
    snap,       \* per reader: the CrateData it cloned out of the registry
    rres,       \* the result list_resources or read_resource is returning
    \* ---- the rendered output area (doc_loader.rs load_documents) ----
    docdir,     \* base_doc_path: what it is and, for a directory, its entries
    dpc,        \* "start" before load_documents, "done" after it returned
    dres,       \* what load_documents returned
    \* ---- the configuration generator (bin/gen-rust-docs-mcp-server-config.rs) ----
    cargo_toml,   \* the parsed manifest: its dependencies, each with its section
    config_style, \* ClaudeDesktop or Roo
    gpc,          \* "start" before generate_mcp_config, "done" after it returned
    mcp_config,   \* the servers object that was generated
    \* ---- the chunk embedding cache (embedding_cache_service.rs) ----
    cache_dir,  \* the cache directory: chunk id -> Option<file text>
    epc,        \* "idle", or "await" while the embedding request is in flight
    ecall,      \* the call in progress or the last call, with its result
    served,     \* per content: the values the last successful call returned,
                \* none once a write of the record has failed
    \* ---- cosine similarity (embeddings.rs cosine_similarity) ----
    v1,         \* the first vector
    v2,         \* the second vector
    similarity, \* what cosine_similarity returned, once it has
    \* ---- SERVER_STATE of server.rs, besides crates ----
    enable_lazy_loading,
    avail_crates, \* SERVER_STATE.available_crates
    server_peer, \* SERVER_STATE.peer
    npc,        \* where the call of RustDocsServer::new is, and its argument
    fresh,      \* the names add_crate inserted since new was last called
    qtask,      \* per query_rust_docs call: where it is
    loads       \* per crate: the load_crate_data calls the queries made

chunkVars == <<doc, cp, out, doc2, out2>>
cacheVars == <<mem, disk, pc, loc, ret, lastOk, lastContent, written>>
embedVars == <<ipc, cname, loaded, emb, need, gnext, inflight, results, gret,
               sent, sentAfterErr>>
ingestVars == <<crates, storeLog>>
loaderVars == <<tree, lpc, kept, returned>>
serveVars == <<stateLock, peerLock, peer, hpc, logpc, delivered, startup, npeers, toolOk>>
hashVars == <<hx, hres>>
queryVars == <<qstate, qpc, qreq, qbest, qcalls, qresp>>
matchVars == <<mq, mavail, mres>>
regVars == <<wpc, snap, rres>>
renderVars == <<docdir, dpc, dres>>
genVars == <<cargo_toml, config_style, gpc, mcp_config>>
svcVars == <<cache_dir, epc, ecall, served>>
cosVars == <<v1, v2, similarity>>
stateVars == <<enable_lazy_loading, avail_crates, server_peer, npc, fresh, qtask, loads>>
vars == <<chunkVars, cacheVars, embedVars, ingestVars, loaderVars, serveVars, hashVars, queryVars, matchVars, regVars, renderVars, genVars, svcVars, cosVars, stateVars>>

NotRun == [kind |-> "notrun"]

\* -------------------------------------------------------------------------
\* Bounds of the model
\* -------------------------------------------------------------------------
MaxChars == 4        \* characters per document, single-document runs
MaxEditChars == 3    \* characters per document, edit runs
MaxParam == 3        \* largest min/target/max given to with_params
MaxPrefixChars == 3  \* characters of the first document, prefix runs
MaxTailChars == 1    \* characters after the shared prefix in the second document
MaxDim == 2          \* longest embedding vector
MaxComponent == 2    \* largest component of a vector, cosine runs
MaxBatch == 3        \* documents per generate_embeddings batch, mixed batches
MaxExtra == 1        \* documents beyond CONCURRENCY_LIMIT, uniform batches
MaxDocs == 2         \* documents per crate
MaxFiles == 3        \* HTML files under docs_path
MaxEntries == 2      \* entries of the rendered output area
MaxDeps == 3         \* dependencies of a manifest, all sections together
MaxLogs == 3         \* send_log calls
MaxPeers == 2        \* set_peer calls
MaxIngest == 2       \* ingestions of one crate
MaxNew == 2          \* calls of RustDocsServer::new
MaxText == 3         \* longest string handed to compute_content_hash
MaxName == 4         \* longest crate name

\* -------------------------------------------------------------------------
\* Bit operations on naturals
\* -------------------------------------------------------------------------
RECURSIVE BitOr(_, _)
BitOr(a, b) ==
    IF a = 0 THEN b
    ELSE IF b = 0 THEN a
    ELSE (IF a % 2 = 1 \/ b % 2 = 1 THEN 1 ELSE 0) + 2 * BitOr(a \div 2, b \div 2)

RECURSIVE BitAnd(_, _)
BitAnd(a, b) ==
    IF a = 0 \/ b = 0 THEN 0
    ELSE (IF a % 2 = 1 /\ b % 2 = 1 THEN 1 ELSE 0) + 2 * BitAnd(a \div 2, b \div 2)

RECURSIVE BitXor(_, _)
BitXor(a, b) ==
    IF a = 0 THEN b
    ELSE IF b = 0 THEN a
    ELSE (IF a % 2 # b % 2 THEN 1 ELSE 0) + 2 * BitXor(a \div 2, b \div 2)

\* -------------------------------------------------------------------------
\* Sequences
\* -------------------------------------------------------------------------
RECURSIVE Flatten(_)
Flatten(ss) == IF ss = <<>> THEN <<>> ELSE Head(ss) \o Flatten(Tail(ss))

SeqsUpTo(S, n) == UNION {[1..k -> S] : k \in 0..n}

\* s[from+1 .. to] in 1-based terms: the bytes at offsets from..to-1
Slice(s, from, to) == SubSeq(s, from + 1, to)

\* -------------------------------------------------------------------------
\* UTF-8 documents
\* -------------------------------------------------------------------------
NUL == <<0>>
LetterA == <<97>>
LetterB == <<98>>
EAcute == <<195, 169>>          \* U+00E9, two bytes
Chars == {NUL, LetterA, LetterB, EAcute}

DocsOf(n) == {Flatten(cs) : cs \in SeqsUpTo(Chars, n)}

\* str::is_char_boundary: offset 0, the length, or a byte that is not a
\* UTF-8 continuation byte (10xxxxxx)
is_char_boundary(s, idx) ==
    \/ idx = 0
    \/ idx = Len(s)
    \/ idx < Len(s) /\ ~(s[idx + 1] >= 128 /\ s[idx + 1] < 192)

\* -------------------------------------------------------------------------
\* document_chunker.rs
\* -------------------------------------------------------------------------
DEFAULT_MIN_CHUNK_SIZE == 1000
DEFAULT_TARGET_CHUNK_SIZE == 4000
DEFAULT_MAX_CHUNK_SIZE == 8000
POLYNOMIAL == 69997
CHUNK_MASK == 8191

new == [min |-> DEFAULT_MIN_CHUNK_SIZE,
        target |-> DEFAULT_TARGET_CHUNK_SIZE,
        max |-> DEFAULT_MAX_CHUNK_SIZE]

with_params(min_size, target_size, max_size) ==
    [min |-> min_size, target |-> target_size, max |-> max_size]

\* SHA-256 is modelled as an injective tagging of the content
generate_chunk_id(content) == <<"sha256", content>>

create_chunk(content) == [id |-> generate_chunk_id(content), content |-> content]

\* rolling_hash = ((rolling_hash << 1) | byte) % POLYNOMIAL; the operand is
\* below POLYNOMIAL, so the shift never wraps the u32
RollingHashStep(h, byte) == BitOr(h * 2, byte) % POLYNOMIAL

\* the loop with the forced break taken one byte late (> instead of >=)
RECURSIVE BoundaryLoop_LateForcedBreak(_, _, _, _, _, _)
BoundaryLoop_LateForcedBreak(bytes, p, i, start_idx, rolling_hash, boundaries) ==
    IF ~(i < Len(bytes)) THEN boundaries
    ELSE
        LET h == RollingHashStep(rolling_hash, bytes[i + 1])
            j == i + 1
        IN  IF j - start_idx < p.min
              THEN BoundaryLoop_LateForcedBreak(bytes, p, j, start_idx, h, boundaries)
            ELSE IF j - start_idx > p.max
              THEN BoundaryLoop_LateForcedBreak(bytes, p, j, j, 0, Append(boundaries, j))
            ELSE IF BitAnd(h, CHUNK_MASK) = 0 \/ j - start_idx > p.target
              THEN BoundaryLoop_LateForcedBreak(bytes, p, j, j, 0, Append(boundaries, j))
            ELSE BoundaryLoop_LateForcedBreak(bytes, p, j, start_idx, h, boundaries)

\* the while loop of find_chunk_boundaries: i bytes consumed so far
RECURSIVE BoundaryLoop(_, _, _, _, _, _)
BoundaryLoop(bytes, p, i, start_idx, rolling_hash, boundaries) ==
    IF ~(i < Len(bytes)) THEN boundaries
    ELSE
        LET h == RollingHashStep(rolling_hash, bytes[i + 1])
            j == i + 1
        IN  IF j - start_idx < p.min
              THEN BoundaryLoop(bytes, p, j, start_idx, h, boundaries)
            ELSE IF j - start_idx >= p.max
              THEN BoundaryLoop(bytes, p, j, j, 0, Append(boundaries, j))
            ELSE IF BitAnd(h, CHUNK_MASK) = 0 \/ j - start_idx >= p.target
              THEN BoundaryLoop(bytes, p, j, j, 0, Append(boundaries, j))
            ELSE BoundaryLoop(bytes, p, j, start_idx, h, boundaries)

\* find_chunk_boundaries without the closing push of the document length
find_chunk_boundaries_NoTail(p, document) ==
    BoundaryLoop(document, p, 0, 0, 0, <<>>)

find_chunk_boundaries(p, document) ==
    LET boundaries == BoundaryLoop(document, p, 0, 0, 0, <<>>)
    IN  IF boundaries # <<>> /\ boundaries[Len(boundaries)] # Len(document)
          THEN Append(boundaries, Len(document))
          ELSE boundaries

Panic == [kind |-> "panic"]
Returned(chunks) == [kind |-> "ok", chunks |-> chunks]

\* the for loop of chunk_document; &document[start_idx..boundary] panics
\* when an end of the range is not a char boundary
RECURSIVE SliceLoop(_, _, _, _, _)
SliceLoop(p, document, boundaries, start_idx, chunks) ==
    IF boundaries = <<>> THEN Returned(chunks)
    ELSE
        LET boundary == Head(boundaries)
        IN  IF ~is_char_boundary(document, start_idx)
               \/ ~is_char_boundary(document, boundary)
              THEN Panic
              ELSE SliceLoop(p, document, Tail(boundaries), boundary,
                       Append(chunks, create_chunk(Slice(document, start_idx, boundary))))

\* a document of at most target bytes is returned whole
chunk_document_ShortByTarget(p, document) ==
    IF Len(document) <= p.target THEN Returned(<<create_chunk(document)>>)
    ELSE
        LET boundaries == find_chunk_boundaries(p, document)
        IN  IF boundaries = <<>> THEN Returned(<<create_chunk(document)>>)
            ELSE SliceLoop(p, document, boundaries, 0, <<>>)

chunk_document(p, document) ==
    IF Len(document) <= p.min THEN Returned(<<create_chunk(document)>>)
    ELSE
        LET boundaries == find_chunk_boundaries(p, document)
        IN  IF boundaries = <<>> THEN Returned(<<create_chunk(document)>>)
            ELSE SliceLoop(p, document, boundaries, 0, <<>>)

\* -------------------------------------------------------------------------
\* fast_hash.rs
\* -------------------------------------------------------------------------
None == <<>>
Some(x) == <<x>>

\* char::is_whitespace for the single-byte characters
IsWhitespace(b) == b \in {9, 10, 11, 12, 13, 32}

\* str::lines: split at \n, a final empty piece is dropped, and a \r that
\* ends a line is removed
RECURSIVE SplitNewline(_, _)
SplitNewline(s, cur) ==
    IF s = <<>> THEN (IF cur = <<>> THEN <<>> ELSE <<cur>>)
    ELSE IF Head(s) = 10 THEN <<cur>> \o SplitNewline(Tail(s), <<>>)
    ELSE SplitNewline(Tail(s), Append(cur, Head(s)))

StripCr(line) ==
    IF line # <<>> /\ line[Len(line)] = 13 THEN SubSeq(line, 1, Len(line) - 1) ELSE line

lines(s) == LET ls == SplitNewline(s, <<>>) IN [k \in 1..Len(ls) |-> StripCr(ls[k])]

RECURSIVE TrimStart(_)
TrimStart(s) == IF s # <<>> /\ IsWhitespace(Head(s)) THEN TrimStart(Tail(s)) ELSE s

RECURSIVE TrimEnd(_)
TrimEnd(s) ==
    IF s # <<>> /\ IsWhitespace(s[Len(s)]) THEN TrimEnd(SubSeq(s, 1, Len(s) - 1)) ELSE s

\* a trim that removes one whitespace character at most from each end
trim_OneEachSide(s) ==
    LET a == IF s # <<>> /\ IsWhitespace(Head(s)) THEN Tail(s) ELSE s
    IN  IF a # <<>> /\ IsWhitespace(a[Len(a)]) THEN SubSeq(a, 1, Len(a) - 1) ELSE a

trim(s) == TrimEnd(TrimStart(s))

RECURSIVE Join(_, _)
Join(ss, sep) ==
    IF ss = <<>> THEN <<>>
    ELSE IF Len(ss) = 1 THEN ss[1]
    ELSE ss[1] \o sep \o Join(Tail(ss), sep)

normalize_content(content) ==
    LET trimmed == [k \in 1..Len(lines(content)) |-> trim(lines(content)[k])]
    IN  Join(SelectSeq(trimmed, LAMBDA l : l # <<>>), <<10>>)

\* A u64 is eight bytes, least significant first.
FNV_OFFSET == <<37, 35, 34, 132, 228, 156, 242, 203>>   \* 0xcbf29ce484222325
FNV_PRIME == <<179, 1, 0, 0, 0, 1, 0, 0>>               \* 0x100000001b3

\* column k (0-based) of the schoolbook product of two u64
MulColumn(a, b, k) ==
    LET Term[i \in 0..k] ==
            a[i + 1] * b[k - i + 1] + (IF i = 0 THEN 0 ELSE Term[i - 1])
    IN  Term[k]

\* a.wrapping_mul(b): the low eight bytes of the product
RECURSIVE CarryFrom(_, _, _, _)
CarryFrom(a, b, k, carry) ==
    IF k = 8 THEN <<>>
    ELSE LET t == MulColumn(a, b, k) + carry
         IN  <<t % 256>> \o CarryFrom(a, b, k + 1, t \div 256)

wrapping_mul(a, b) == CarryFrom(a, b, 0, 0)

\* FastHasher::write_u8: state ^= byte; state = state.wrapping_mul(FNV_PRIME)
write_u8(state, byte) ==
    wrapping_mul([state EXCEPT ![1] = BitXor(state[1], byte)], FNV_PRIME)

RECURSIVE HashBytes(_, _)
HashBytes(state, s) ==
    IF s = <<>> THEN state ELSE HashBytes(write_u8(state, Head(s)), Tail(s))

hash_string(s) == HashBytes(FNV_OFFSET, s)

\* the hash of the content as it is, without normalisation
compute_content_hash_Raw(content) == hash_string(content)

compute_content_hash(content) == hash_string(normalize_content(content))

\* the strings hashed: tab, line feed, carriage return, space, two letters
TextBytes == {9, 10, 13, 32, 97, 98}
Texts == UNION {[1..n -> TextBytes] : n \in 0..MaxText}

HashIdle == hx = <<>> /\ hres = [kind |-> "notrun"]

\* lines 48-62: normalize_content(hx) and compute_content_hash(hx)
ComputeContentHash ==
    /\ hres.kind = "notrun"
    /\ hres' = [kind |-> "done",
                normalized |-> normalize_content(hx),
                hash |-> compute_content_hash(hx)]
    /\ UNCHANGED hx

\* -------------------------------------------------------------------------
\* global_cache.rs
\* -------------------------------------------------------------------------
\* format!("{:016x}.bin", content_hash): sixteen hex digits, most significant
\* first, then the extension
FileName(h) ==
    [k \in 1..16 |-> IF k % 2 = 1 THEN h[8 - (k - 1) \div 2] \div 16
                                  ELSE h[8 - (k - 1) \div 2] % 16] \o <<".bin">>

\* f32 values and f32::to_le_bytes
Floats == {"1.0", "0.5"}
to_le_bytes(f) == IF f = "1.0" THEN <<0, 0, 128, 63>> ELSE <<0, 0, 0, 63>>
from_le_bytes(b) == CHOOSE f \in Floats : to_le_bytes(f) = b

\* bincode, standard configuration: the length as a varint (one byte below
\* 251), then each f32 as four little-endian bytes
encode(v) == <<Len(v)>> \o Flatten([k \in 1..Len(v) |-> to_le_bytes(v[k])])

\* decode_from_reader::<Vec<f32>>: Err (None here) when the input ends
\* early; bytes after the vector are not read
decode(bytes) ==
    IF bytes = <<>> THEN None
    ELSE LET n == bytes[1]
         IN  IF Len(bytes) < 1 + 4 * n THEN None
             ELSE Some([k \in 1..n |-> from_le_bytes(SubSeq(bytes, 4 * k - 2, 4 * k + 1))])

\* the vectors stored: 1.0, 0.5, 1.0, ... of every length up to MaxDim, and
\* the one-element vector 0.5
Ramp(n) == [k \in 1..n |-> IF k % 2 = 1 THEN "1.0" ELSE "0.5"]
Vectors == {Ramp(n) : n \in 1..MaxDim} \cup {<<"0.5">>}

\* contents given to the cache: "a", " a\n" (the same after normalisation)
\* and "b"
CacheContents == {<<97>>, <<32, 97, 10>>, <<98>>}
\* contents of the documents of a crate: "a", "b", "c", "d"
DocContents == {<<97>>, <<98>>, <<99>>, <<100>>}
HashOf == [c \in CacheContents \cup DocContents |-> compute_content_hash(c)]
Keys == {HashOf[c] : c \in DOMAIN HashOf}
PathOf == [h \in Keys |-> FileName(h)]
Files == {PathOf[h] : h \in Keys}

Threads == {1, 2}
SeqThreads == {1}

NoLocals == [op |-> "none"]
NoReturn == [op |-> "none"]

CacheIdle ==
    /\ mem = [h \in Keys |-> None]
    /\ disk = [f \in Files |-> None]
    /\ pc = [t \in Threads |-> "idle"]
    /\ loc = [t \in Threads |-> NoLocals]
    /\ ret = [t \in Threads |-> NoReturn]
    /\ lastOk = [h \in Keys |-> None]
    /\ lastContent = [h \in Keys |-> None]
    /\ written = {}

\* ---- store_embedding ----
\* lines 89-95: hash the content, insert into the in-memory map
StoreInsert(t) ==
    /\ pc[t] = "idle"
    /\ \E c \in CacheContents, v \in Vectors :
          LET h == HashOf[c]
          IN  /\ mem' = [mem EXCEPT ![h] = Some(v)]
              /\ loc' = [loc EXCEPT ![t] = [op |-> "store", content |-> c, hash |-> h,
                                            v |-> v]]
              /\ lastOk' = [lastOk EXCEPT ![h] = None]
              /\ lastContent' = [lastContent EXCEPT ![h] = None]
              /\ written' = written \cup {h}
    /\ pc' = [pc EXCEPT ![t] = "store_dir"]
    /\ ret' = [ret EXCEPT ![t] = NoReturn]
    /\ UNCHANGED disk

\* the call of thread t returns; io tells whether a get_embedding gave up on
\* an I/O error
ReturnFrom(t, result, io) ==
    /\ pc' = [pc EXCEPT ![t] = "idle"]
    /\ ret' = [ret EXCEPT ![t] = [op |-> loc[t].op, content |-> loc[t].content,
                                  hash |-> loc[t].hash,
                                  result |-> result, ioError |-> io]]
    /\ loc' = [loc EXCEPT ![t] = NoLocals]

\* a failed store_embedding that takes its map entry back
StoreIoFails_RemovesKey(t) ==
    /\ pc[t] = "store_dir"
    /\ mem' = [mem EXCEPT ![loc[t].hash] = None]
    /\ ReturnFrom(t, "Err", FALSE)
    /\ UNCHANGED <<disk, lastOk, lastContent, written>>

\* lines 98, 101: get_cache_dir()? or File::create(..)? fails,
\* store_embedding returns the error
StoreIoFails(t) ==
    /\ pc[t] = "store_dir"
    /\ ReturnFrom(t, "Err", FALSE)
    /\ UNCHANGED <<mem, disk, lastOk, lastContent, written>>

\* lines 98-102: File::create makes the file, or truncates the one there
StoreCreate(t) ==
    /\ pc[t] = "store_dir"
    /\ disk' = [disk EXCEPT ![PathOf[loc[t].hash]] = Some(<<>>)]
    /\ pc' = [pc EXCEPT ![t] = "store_write"]
    /\ UNCHANGED <<mem, loc, ret, lastOk, lastContent, written>>

\* lines 101-104: the handle File::create returned writes from offset 0 of
\* the file as it is now: bytes another handle wrote past the end of this
\* write stay in the file
WriteAtStart(old, bytes) == bytes \o SubSeq(old, Len(bytes) + 1, Len(old))

\* lines 104-105: encode_into_std_write fails part-way: some of the bytes
\* reached the file, store_embedding returns the error
StoreWriteFails(t) ==
    /\ pc[t] = "store_write"
    /\ \E n \in 0..(Len(encode(loc[t].v)) - 1) :
          disk' = [disk EXCEPT ![PathOf[loc[t].hash]] =
                      Some(WriteAtStart(disk[PathOf[loc[t].hash]][1],
                                        SubSeq(encode(loc[t].v), 1, n)))]
    /\ ReturnFrom(t, "Err", FALSE)
    /\ UNCHANGED <<mem, lastOk, lastContent, written>>

\* the vector written without its length prefix
StoredBytes_NoLength(v) == Tail(encode(v))

\* the bytes store_embedding leaves in the file when it returns Ok
StoredBytes(v) == encode(v)

\* lines 104-107: the vector is encoded into the writer, the writer is
\* dropped and Ok(()) is returned. The flush at the drop is taken to succeed
\* (std ignores an error there, the code cannot see one).
StoreWrite(t) ==
    /\ pc[t] = "store_write"
    /\ disk' = [disk EXCEPT ![PathOf[loc[t].hash]] =
                    Some(WriteAtStart(disk[PathOf[loc[t].hash]][1], StoredBytes(loc[t].v)))]
    /\ lastOk' = [lastOk EXCEPT ![loc[t].hash] = Some(loc[t].v)]
    /\ lastContent' = [lastContent EXCEPT ![loc[t].hash] = Some(loc[t].content)]
    /\ ReturnFrom(t, "Ok", FALSE)
    /\ UNCHANGED <<mem, written>>

\* ---- get_embedding ----
\* what the read-locked lookup of lines 51-56 finds
MemLookup(h) == mem[h]

\* lines 48-56, a hit in the in-memory map
GetHit(t) ==
    /\ pc[t] = "idle"
    /\ \E c \in CacheContents :
          LET h == HashOf[c]
          IN  /\ MemLookup(h) # None
              /\ pc' = [pc EXCEPT ![t] = "idle"]
              /\ ret' = [ret EXCEPT ![t] = [op |-> "get", content |-> c, hash |-> h,
                                            result |-> MemLookup(h), ioError |-> FALSE]]
    /\ UNCHANGED <<mem, disk, loc, lastOk, lastContent, written>>

\* lines 48-56, a miss: go on to the disk
GetMiss(t) ==
    /\ pc[t] = "idle"
    /\ \E c \in CacheContents :
          LET h == HashOf[c]
          IN  /\ MemLookup(h) = None
              /\ loc' = [loc EXCEPT ![t] = [op |-> "get", content |-> c, hash |-> h]]
    /\ pc' = [pc EXCEPT ![t] = "get_disk"]
    /\ ret' = [ret EXCEPT ![t] = NoReturn]
    /\ UNCHANGED <<mem, disk, lastOk, lastContent, written>>

\* an I/O error that also empties the in-memory map
GetIoFails_DropsMap(t) ==
    /\ pc[t] = "get_disk"
    /\ mem' = [h \in Keys |-> None]
    /\ ReturnFrom(t, None, TRUE)
    /\ UNCHANGED <<disk, lastOk, lastContent, written>>

\* lines 59, 82: get_cache_dir fails; lines 63, 76: File::open fails
GetIoFails(t) ==
    /\ pc[t] = "get_disk"
    /\ ReturnFrom(t, None, TRUE)
    /\ UNCHANGED <<mem, disk, lastOk, lastContent, written>>

\* lines 62, 78-80: no file of that name
GetNoFile(t) ==
    /\ pc[t] = "get_disk"
    /\ disk[PathOf[loc[t].hash]] = None
    /\ ReturnFrom(t, None, FALSE)
    /\ UNCHANGED <<mem, disk, lastOk, lastContent, written>>

\* lines 66, 73: the file does not decode
GetDecodeFails(t) ==
    /\ pc[t] = "get_disk"
    /\ disk[PathOf[loc[t].hash]] # None
    /\ decode(disk[PathOf[loc[t].hash]][1]) = None
    /\ ReturnFrom(t, None, FALSE)
    /\ UNCHANGED <<mem, disk, lastOk, lastContent, written>>

\* lines 63-67: the file is read and decoded
GetDecode(t) ==
    /\ pc[t] = "get_disk"
    /\ disk[PathOf[loc[t].hash]] # None
    /\ decode(disk[PathOf[loc[t].hash]][1]) # None
    /\ loc' = [loc EXCEPT ![t] = [op |-> "get", content |-> loc[t].content,
                                  hash |-> loc[t].hash,
                                  embedding |-> decode(disk[PathOf[loc[t].hash]][1])[1]]]
    /\ pc' = [pc EXCEPT ![t] = "get_insert"]
    /\ UNCHANGED <<mem, disk, ret, lastOk, lastContent, written>>

\* lines 68-71: write lock, insert what was read, return it
GetInsert(t) ==
    /\ pc[t] = "get_insert"
    /\ mem' = [mem EXCEPT ![loc[t].hash] = Some(loc[t].embedding)]
    /\ ReturnFrom(t, Some(loc[t].embedding), FALSE)
    /\ UNCHANGED <<disk, lastOk, lastContent, written>>

\* The process ends (at any point) and a new one starts: the in-memory map is
\* empty again, the files stay.
Restart ==
    /\ mem' = [h \in Keys |-> None]
    /\ pc' = [t \in Threads |-> "idle"]
    /\ loc' = [t \in Threads |-> NoLocals]
    /\ ret' = [t \in Threads |-> NoReturn]
    /\ written' = {}
    /\ UNCHANGED <<disk, lastOk, lastContent>>

\* -------------------------------------------------------------------------
\* The cache as the ingestion task uses it: a call runs to its end, no I/O
\* error.
\* -------------------------------------------------------------------------
\* get_embedding: [result, mem]
cache_get(m, d, content) ==
    LET h == HashOf[content]
        file == d[PathOf[h]]
    IN  IF m[h] # None THEN [result |-> m[h], mem |-> m]
        ELSE IF file # None /\ decode(file[1]) # None
          THEN [result |-> decode(file[1]), mem |-> [m EXCEPT ![h] = decode(file[1])]]
          ELSE [result |-> None, mem |-> m]

\* store_embedding: [mem, disk]
cache_store(m, d, content, v) ==
    LET h == HashOf[content]
    IN  [mem |-> [m EXCEPT ![h] = Some(v)],
         disk |-> [d EXCEPT ![PathOf[h]] = Some(StoredBytes(v))]]

\* -------------------------------------------------------------------------
\* embeddings.rs: generate_embeddings
\* -------------------------------------------------------------------------
CONCURRENCY_LIMIT == 8
TOKEN_LIMIT == 8000

PathAt(k) == <<"doc", k>>
Document(path, content) == [path |-> path, content |-> content]

\* The tokenizer and the embedding endpoint are outside the program: "a" has
\* 1 token, "b" exactly 8000, "c" 8001; the endpoint answers "a" and "b"
\* with one vector each and fails on "d" (2 tokens).
TokenCount == (<<97>> :> 1) @@ (<<98>> :> 8000) @@ (<<99>> :> 8001) @@ (<<100>> :> 2)
EndpointFails(content) == content = <<100>>
EmbedOf == (<<97>> :> <<"1.0">>) @@ (<<98>> :> <<"0.5">>) @@ (<<99>> :> Ramp(2))
              @@ (<<100>> :> Ramp(2))

Skipped == [kind |-> "none"]
Failed == [kind |-> "err"]
Embedded(path, vector, tokens) ==
    [kind |-> "some", path |-> path, vector |-> vector, tokens |-> tokens]

\* the gate that skips a document at the limit too (>= instead of >)
OverLimit_AtLimitToo(token_count) == token_count >= TOKEN_LIMIT

\* line 134: token_count > TOKEN_LIMIT
OverLimit(token_count) == token_count > TOKEN_LIMIT

\* no bound on the futures in progress
HasRoom_Unbounded(in_progress) == TRUE

\* line 192: buffer_unordered(CONCURRENCY_LIMIT) takes the next future from
\* the stream while fewer than the limit are in progress
HasRoom(in_progress) == Cardinality(in_progress) < CONCURRENCY_LIMIT

StreamLeft == gnext < Len(need)

\* lines 130-144: the next document is taken from the stream and polled; it
\* is over the token limit and its future completes with Ok(None)
GSkip ==
    /\ ipc = "embedding"
    /\ StreamLeft /\ HasRoom(inflight)
    /\ OverLimit(TokenCount[need[gnext + 1].content])
    /\ gnext' = gnext + 1
    /\ results' = Append(results, Skipped)
    /\ UNCHANGED <<ipc, cname, loaded, emb, need, inflight, gret, sent, sentAfterErr>>

\* lines 130-160: the next document is taken from the stream and polled; its
\* request goes to the endpoint and the future waits for the response
GSend ==
    /\ ipc = "embedding"
    /\ StreamLeft /\ HasRoom(inflight)
    /\ ~OverLimit(TokenCount[need[gnext + 1].content])
    /\ gnext' = gnext + 1
    /\ inflight' = inflight \cup {gnext + 1}
    /\ sent' = sent \cup {gnext + 1}
    /\ sentAfterErr' = (sentAfterErr \/ \E k \in 1..Len(results) : results[k] = Failed)
    /\ UNCHANGED <<ipc, cname, loaded, emb, need, results, gret>>

\* lines 160-189: a response arrives (the buffer is full or the stream is
\* empty, so the task is waiting); the result joins the collected ones
GRespond ==
    /\ ipc = "embedding"
    /\ ~(StreamLeft /\ HasRoom(inflight))
    /\ \E i \in inflight :
          /\ inflight' = inflight \ {i}
          /\ results' = Append(results,
                IF EndpointFails(need[i].content) THEN Failed
                ELSE Embedded(need[i].path, EmbedOf[need[i].content],
                              TokenCount[need[i].content]))
    /\ UNCHANGED <<ipc, cname, loaded, emb, need, gnext, gret, sent, sentAfterErr>>

\* lines 197-213: the loop over the collected results
RECURSIVE CollectLoop(_, _, _)
CollectLoop(rs, embeddings_vec, total_processed_tokens) ==
    IF rs = <<>> THEN [kind |-> "ok", pairs |-> embeddings_vec,
                       total |-> total_processed_tokens]
    ELSE IF Head(rs).kind = "some"
      THEN CollectLoop(Tail(rs),
               Append(embeddings_vec, [path |-> Head(rs).path, vector |-> Head(rs).vector]),
               total_processed_tokens + Head(rs).tokens)
    ELSE IF Head(rs).kind = "none"
      THEN CollectLoop(Tail(rs), embeddings_vec, total_processed_tokens)
    ELSE [kind |-> "err"]

\* lines 193-219: every future has completed; the results are processed and
\* generate_embeddings returns
GReturn ==
    /\ ipc = "embedding"
    /\ ~StreamLeft /\ inflight = {}
    /\ gret' = CollectLoop(results, <<>>, 0)
    /\ ipc' = "returned"
    /\ UNCHANGED <<cname, loaded, emb, need, gnext, inflight, results, sent, sentAfterErr>>

\* -------------------------------------------------------------------------
\* server.rs: load_crate_data and add_crate
\* -------------------------------------------------------------------------
CrateNames == {"serde"}
\* the names the registry may hold
RegistryNames == CrateNames \cup {"tokio"}

\* lines 270-280: the cache is probed for every loaded document
RECURSIVE ProbeLoop(_, _, _, _, _)
ProbeLoop(docs, m, d, embeddings, documents_needing_embedding) ==
    IF docs = <<>>
      THEN [mem |-> m, embeddings |-> embeddings, need |-> documents_needing_embedding]
    ELSE LET got == cache_get(m, d, Head(docs).content)
         IN  IF got.result # None
               THEN ProbeLoop(Tail(docs), got.mem, d,
                        Append(embeddings, [path |-> Head(docs).path, vector |-> got.result[1]]),
                        documents_needing_embedding)
               ELSE ProbeLoop(Tail(docs), got.mem, d, embeddings,
                        Append(documents_needing_embedding, Head(docs)))

\* lines 313-322: the i-th new embedding is stored under the content of the
\* i-th document that needed one; what the loop stores, in order
StoreList(new_embeddings, documents_needing_embedding) ==
    [i \in 1..Len(new_embeddings) |->
        [content |-> documents_needing_embedding[i].content,
         vector |-> new_embeddings[i].vector]]

RECURSIVE StoreLoop(_, _, _)
StoreLoop(pairs, m, d) ==
    IF pairs = <<>> THEN [mem |-> m, disk |-> d]
    ELSE LET st == cache_store(m, d, Head(pairs).content, Head(pairs).vector)
         IN  StoreLoop(Tail(pairs), st.mem, st.disk)

\* the crate data built from the documents that needed an embedding only
CrateData_NeededOnly(documents, needed, embeddings) ==
    [documents |-> needed, embeddings |-> embeddings]

\* lines 175-178 with the values load_crate_data returns (lines 290, 335-341)
CrateData(documents, needed, embeddings) ==
    [documents |-> documents, embeddings |-> embeddings]

\* an add_crate that replaces the documents of an entry and keeps its
\* embeddings
add_crate_KeepsEmbeddings(registry, crate_name, crate_data) ==
    [registry EXCEPT ![crate_name] =
        IF registry[crate_name] = None THEN Some(crate_data)
        ELSE Some([documents |-> crate_data.documents,
                   embeddings |-> registry[crate_name][1].embeddings])]

\* lines 180-181: crates.insert(crate_name, crate_data)
add_crate(registry, crate_name, crate_data) ==
    [registry EXCEPT ![crate_name] = Some(crate_data)]

\* the documents load_documents can return: up to MaxDocs documents with
\* pairwise distinct paths
DocLists ==
    UNION {{[k \in 1..n |-> Document(PathAt(k), cs[k])] :
                cs \in {f \in [1..n -> DocContents] : \A i, j \in 1..n : f[i] = f[j] => i = j}}
             : n \in 0..MaxDocs}

EmbedIdle ==
    /\ ipc = "idle" /\ cname = "" /\ loaded = <<>> /\ emb = <<>> /\ need = <<>>
    /\ gnext = 0 /\ inflight = {} /\ results = <<>> /\ gret = NotRun
    /\ sent = {} /\ sentAfterErr = FALSE

IngestIdle ==
    /\ crates = [n \in RegistryNames |-> None]
    /\ storeLog = {}

\* lines 247-290 and add_crate: every document has a cached embedding,
\* load_crate_data returns early and the crate is added
IngestAllCached ==
    /\ ipc = "idle"
    /\ \E name \in CrateNames, docs \in DocLists :
          LET probe == ProbeLoop(docs, mem, disk, <<>>, <<>>)
          IN  /\ probe.need = <<>>
              /\ mem' = probe.mem
              /\ crates' = add_crate(crates, name, CrateData(docs, probe.need, probe.embeddings))
    /\ UNCHANGED <<disk, pc, loc, ret, lastOk, lastContent, written, storeLog>>
    /\ UNCHANGED embedVars

\* lines 247-306: some document has no cached embedding, generate_embeddings
\* is called for those
IngestBegin ==
    /\ ipc = "idle"
    /\ \E name \in CrateNames, docs \in DocLists :
          LET probe == ProbeLoop(docs, mem, disk, <<>>, <<>>)
          IN  /\ probe.need # <<>>
              /\ mem' = probe.mem
              /\ cname' = name
              /\ loaded' = docs
              /\ emb' = probe.embeddings
              /\ need' = probe.need
    /\ ipc' = "embedding"
    /\ gnext' = 0 /\ inflight' = {} /\ results' = <<>> /\ gret' = NotRun
    /\ sent' = {} /\ sentAfterErr' = FALSE
    /\ UNCHANGED <<disk, pc, loc, ret, lastOk, lastContent, written, crates, storeLog>>

\* line 306: generate_embeddings returned an error, load_crate_data returns
\* it and no crate is added
IngestFails ==
    /\ ipc = "returned"
    /\ gret.kind = "err"
    /\ ipc' = "idle"
    /\ UNCHANGED <<cname, loaded, emb, need, gnext, inflight, results, gret, sent,
                   sentAfterErr>>
    /\ UNCHANGED <<cacheVars, crates, storeLog>>

\* lines 308-341 and add_crate: the new embeddings are stored in the cache,
\* merged with the reused ones, and the crate is added
IngestStoreAndAdd ==
    /\ ipc = "returned"
    /\ gret.kind = "ok"
    /\ LET stores == StoreList(gret.pairs, need)
           st == StoreLoop(stores, mem, disk)
       IN  /\ mem' = st.mem
           /\ disk' = st.disk
           /\ storeLog' = {stores[i] : i \in 1..Len(stores)}
           /\ written' = written \cup {HashOf[stores[i].content] : i \in 1..Len(stores)}
           /\ lastOk' = [h \in Keys |->
                 IF \E i \in 1..Len(stores) : HashOf[stores[i].content] = h
                   THEN st.mem[h] ELSE lastOk[h]]
           /\ lastContent' = [h \in Keys |->
                 IF \E i \in 1..Len(stores) : HashOf[stores[i].content] = h
                   THEN LET last == CHOOSE i \in 1..Len(stores) :
                                      /\ HashOf[stores[i].content] = h
                                      /\ \A j \in (i + 1)..Len(stores) :
                                            HashOf[stores[j].content] # h
                        IN  Some(stores[last].content)
                   ELSE lastContent[h]]
    /\ crates' = add_crate(crates, cname, CrateData(loaded, need, emb \o gret.pairs))
    /\ ipc' = "idle"
    /\ UNCHANGED <<cname, loaded, emb, need, gnext, inflight, results, gret, sent,
                   sentAfterErr>>
    /\ UNCHANGED <<pc, loc, ret>>

\* -------------------------------------------------------------------------
\* doc_loader.rs: process_html_documents
\* -------------------------------------------------------------------------
\* A path is the sequence of its components. docs_path, and the file names
\* and directories found under it.
DocsPath == <<"target", "doc", "serde">>
IndexName == "index.html"
PageName == "page.html"
NonUtf8Name == "\\xFF.html"     \* a file name that is not valid UTF-8
RootDir == <<>>
Places == {<<RootDir, IndexName>>, <<<<"de">>, IndexName>>, <<RootDir, PageName>>,
           <<<<"de">>, PageName>>, <<<<"src">>, PageName>>, <<RootDir, NonUtf8Name>>}

\* What the file system says about a file: its length in bytes and what
\* fails on it: "metadata" (fs::metadata fails), "read" (read_to_string
\* fails), "nomain" (no main-content element, or one without text), "none".
Conditions ==
    {[size |-> 1, fault |-> "none"], [size |-> 2, fault |-> "none"]}
        \cup {[size |-> 2, fault |-> f] : f \in {"metadata", "read", "nomain"}}

HtmlFile(place, cond) ==
    [dir |-> place[1], base |-> place[2], size |-> cond.size, fault |-> cond.fault]

\* the trees: up to MaxFiles files at pairwise different places, in any
\* order of collection
Trees ==
    {t \in SeqsUpTo({HtmlFile(pl, c) : pl \in Places, c \in Conditions}, MaxFiles) :
        \A i, j \in 1..Len(t) :
            (t[i].dir = t[j].dir /\ t[i].base = t[j].base) => i = j}

relative_path(f) == Append(f.dir, f.base)
FullPath(f) == DocsPath \o relative_path(f)

\* lines 59-74: the files of one basename in collection order; a file whose
\* name is not UTF-8 joins no group
RECURSIVE SelectFiles(_, _)
SelectFiles(paths, basename) ==
    IF paths = <<>> THEN <<>>
    ELSE IF Head(paths).base = basename
      THEN <<Head(paths)>> \o SelectFiles(Tail(paths), basename)
      ELSE SelectFiles(Tail(paths), basename)

basename_groups(all_html_paths) ==
    [b \in {all_html_paths[i].base : i \in 1..Len(all_html_paths)} \ {NonUtf8Name}
        |-> SelectFiles(all_html_paths, b)]

\* no group is taken for index.html
IsIndex_Never(basename) == FALSE

\* line 88
IsIndex(basename) == basename = IndexName

\* line 93: a component of the path equals "src"
HasSrcComponent(f) == \E i \in 1..Len(FullPath(f)) : FullPath(f)[i] = "src"

\* line 93: only the first path of the group is looked at
InSourceView(paths) == paths # <<>> /\ HasSrcComponent(paths[1])

\* lines 102-116: Some(file) of the largest length, the first of them;
\* "Err" when fs::metadata fails on a file
RECURSIVE try_fold(_, _)
try_fold(paths, largest) ==
    IF paths = <<>> THEN largest
    ELSE IF Head(paths).fault = "metadata" THEN "Err"
    ELSE IF largest = None THEN try_fold(Tail(paths), Some(Head(paths)))
    ELSE IF Head(paths).size > largest[1].size THEN try_fold(Tail(paths), Some(Head(paths)))
    ELSE try_fold(Tail(paths), largest)

\* lines 86-130, one turn of the loop: the files the group adds to
\* paths_to_process
SelectFromGroup(basename, paths) ==
    IF IsIndex(basename) THEN <<>>
    ELSE IF InSourceView(paths) THEN <<>>
    ELSE IF Len(paths) = 1 THEN paths
    ELSE LET largest_path_result == try_fold(paths, None)
         IN  IF largest_path_result = "Err" THEN <<>> ELSE largest_path_result

\* lines 79-83: root_index_path.is_file()
RootIndex(all_html_paths) ==
    SelectSeq(all_html_paths, LAMBDA f : f.dir = RootDir /\ f.base = IndexName)

\* lines 76-130: the groups are visited in the order the HashMap gives
RECURSIVE FilterLoop(_, _, _)
FilterLoop(groups, order, paths_to_process) ==
    IF order = <<>> THEN paths_to_process
    ELSE FilterLoop(groups, Tail(order),
             paths_to_process \o SelectFromGroup(Head(order), groups[Head(order)]))

\* lines 135-172: the Document of each path kept, none for a file that
\* cannot be read or has no main content
TextOf(f) == <<"text", f.dir, f.base>>

RECURSIVE ExtractLoop(_, _)
ExtractLoop(paths_to_process, docs) ==
    IF paths_to_process = <<>> THEN docs
    ELSE IF Head(paths_to_process).fault \in {"read", "nomain"}
      THEN ExtractLoop(Tail(paths_to_process), docs)
      ELSE ExtractLoop(Tail(paths_to_process),
               Append(docs, Document(relative_path(Head(paths_to_process)),
                                     TextOf(Head(paths_to_process)))))

\* the orders in which a HashMap can yield the keys of a set
Orders(S) == {o \in SeqsUpTo(S, Cardinality(S)) :
                 Len(o) = Cardinality(S) /\ \A i, j \in 1..Len(o) : o[i] = o[j] => i = j}

LoaderIdle == tree = <<>> /\ lpc = "idle" /\ kept = <<>> /\ returned = <<>>

\* lines 40-175: process_html_documents(docs_path, crate_name)
ProcessHtmlDocuments ==
    /\ lpc = "start"
    /\ LET groups == basename_groups(tree)
       IN  \E order \in Orders(DOMAIN groups) :
             LET paths_to_process == FilterLoop(groups, order, RootIndex(tree))
             IN  /\ kept' = paths_to_process
                 /\ returned' = ExtractLoop(paths_to_process, <<>>)
    /\ lpc' = "done"
    /\ UNCHANGED tree

\* -------------------------------------------------------------------------
\* doc_loader.rs: load_documents, the search for the documentation directory
\* -------------------------------------------------------------------------
\* An entry of base_doc_path: what entry.file_type() says it is, what
\* <entry>/index.html is, and what fails on it: "entry" (read_dir yields an
\* Err for it), "file_type" (entry.file_type() fails), "none".
EntryKinds == {"dir", "file", "symlink"}
IndexKinds == {"none", "file", "dir"}
EntryFaults == {"none", "entry", "file_type"}
DirEntries ==
    [kind : EntryKinds, index : IndexKinds, fault : {"none"}]
        \cup [kind : {"dir"}, index : {"file"}, fault : EntryFaults]

\* base_doc_path is a directory with entries, a directory read_dir fails
\* on, or no directory at all
DocDirs ==
    {[kind |-> "dir", entries |-> e] : e \in SeqsUpTo(DirEntries, MaxEntries)}
        \cup {[kind |-> k, entries |-> <<>>] : k \in {"unreadable", "absent"}}

\* the name of the i-th entry
EntryPath(i) == <<"doc", i>>

\* what the search has when it ends, and what it is when `?` returned early
Scanned(target_docs_path, found_count) ==
    [io |-> "Ok", target_docs_path |-> target_docs_path, found_count |-> found_count]
IoErr == [io |-> "Err", target_docs_path |-> None, found_count |-> 0]

\* the count stays at one
found_count_Saturating(found_count) == 1

\* line 275
found_count_incr(found_count) == found_count + 1

\* lines 266-278: the loop over read_dir; IoErr when an entry or its file
\* type cannot be read, else the first directory found and the count
RECURSIVE ScanLoop(_, _, _, _)
ScanLoop(entries, i, target_docs_path, found_count) ==
    IF i > Len(entries)
      THEN Scanned(target_docs_path, found_count)
    ELSE IF entries[i].fault # "none" THEN IoErr
    ELSE IF entries[i].kind = "dir" /\ entries[i].index = "file"
      THEN ScanLoop(entries, i + 1,
                    IF target_docs_path = None THEN Some(i) ELSE target_docs_path,
                    found_count_incr(found_count))
      ELSE ScanLoop(entries, i + 1, target_docs_path, found_count)

\* lines 260-279
FindDocsDir(d) ==
    IF d.kind = "absent" THEN Scanned(None, 0)
    ELSE IF d.kind = "unreadable" THEN IoErr
    ELSE ScanLoop(d.entries, 1, None, 0)

\* the trees cargo doc can leave in a directory that has an index.html
\* index.html, alone or with one more file before or after it
RenderedTrees ==
    LET index == {HtmlFile(<<RootDir, IndexName>>, c) : c \in Conditions}
        other == {HtmlFile(pl, c) : pl \in Places \ {<<RootDir, IndexName>>}, c \in Conditions}
    IN  {<<x>> : x \in index}
            \cup {<<x, f>> : x \in index, f \in other}
            \cup {<<f, x>> : x \in index, f \in other}

DocLoaderError(variant) == [kind |-> "Err", variant |-> variant]
NoResult == [kind |-> "none"]

RenderIdle == docdir = [kind |-> "absent", entries |-> <<>>] /\ dpc = "idle" /\ dres = NoResult

\* lines 186-255: the temporary crate cannot be set up or ops::doc fails
LoadDocumentsRenderFails ==
    /\ dpc = "start"
    /\ \E v \in {"TempDirCreationFailed", "Io", "CargoLib"} : dres' = DocLoaderError(v)
    /\ dpc' = "done"
    /\ UNCHANGED <<docdir, loaderVars>>

\* lines 266-268: read_dir, an entry or its file type fails: `?` returns Io
LoadDocumentsIoFails ==
    /\ dpc = "start"
    /\ FindDocsDir(docdir).io = "Err"
    /\ dres' = DocLoaderError("Io")
    /\ dpc' = "done"
    /\ UNCHANGED <<docdir, loaderVars>>

\* lines 285-296: no directory or several directories were found
LoadDocumentsNotOne ==
    /\ dpc = "start"
    /\ FindDocsDir(docdir).io = "Ok"
    /\ ~ (/\ FindDocsDir(docdir).found_count = 1
          /\ FindDocsDir(docdir).target_docs_path # None)
    /\ dres' = DocLoaderError("CargoLib")
    /\ dpc' = "done"
    /\ UNCHANGED <<docdir, loaderVars>>

\* lines 282-306: one directory was found: process_html_documents runs on
\* it and its documents are returned
LoadDocumentsOne ==
    /\ dpc = "start"
    /\ FindDocsDir(docdir).io = "Ok"
    /\ FindDocsDir(docdir).found_count = 1
    /\ FindDocsDir(docdir).target_docs_path # None
    /\ \E t \in RenderedTrees :
          LET groups == basename_groups(t)
          IN  \E order \in Orders(DOMAIN groups) :
                LET paths_to_process == FilterLoop(groups, order, RootIndex(t))
                IN  /\ tree' = t
                    /\ kept' = paths_to_process
                    /\ returned' = ExtractLoop(paths_to_process, <<>>)
                    /\ dres' = [kind |-> "Ok",
                                docs_path |-> EntryPath(FindDocsDir(docdir).target_docs_path[1]),
                                documents |-> ExtractLoop(paths_to_process, <<>>)]
    /\ lpc' = "done"
    /\ dpc' = "done"
    /\ UNCHANGED docdir

\* -------------------------------------------------------------------------
\* service.rs: handle_request, set_peer; server.rs: send_log
\* -------------------------------------------------------------------------
Handlers == {1, 2}
Free == 0

ServeIdle ==
    /\ stateLock = Free /\ peerLock = Free /\ peer = FALSE
    /\ hpc = [h \in Handlers |-> "idle"]
    /\ logpc = <<>> /\ delivered = <<>>
    /\ startup = TRUE /\ npeers = 0 /\ toolOk = FALSE

\* the startup announcement, as a message: it precedes every send_log call
Startup == 0

\* server.rs lines 199-201: send_log spawns a task for the message and
\* returns; the message is known by its place in the order of the calls
send_log == logpc' = Append(logpc, "spawned")

\* service.rs lines 279-310: set_peer when the announcement is still there:
\* it is taken, sent to the new peer before the peer is stored, and the send
\* succeeds
SetPeerStartup ==
    /\ peerLock = Free /\ startup
    /\ npeers < MaxPeers
    /\ startup' = FALSE
    /\ delivered' = Append(delivered, Startup)
    /\ peer' = TRUE
    /\ npeers' = npeers + 1
    /\ UNCHANGED <<stateLock, peerLock, hpc, logpc, toolOk>>

\* service.rs lines 283, 300-302: the announcement is taken and the send
\* fails; the error is printed
SetPeerStartupFails ==
    /\ peerLock = Free /\ startup
    /\ npeers < MaxPeers
    /\ startup' = FALSE
    /\ peer' = TRUE
    /\ npeers' = npeers + 1
    /\ UNCHANGED <<stateLock, peerLock, hpc, logpc, delivered, toolOk>>

\* service.rs lines 279-310: set_peer when the announcement was taken before
SetPeer ==
    /\ peerLock = Free /\ ~startup
    /\ npeers < MaxPeers
    /\ peer' = TRUE
    /\ npeers' = npeers + 1
    /\ UNCHANGED <<stateLock, peerLock, hpc, logpc, delivered, startup, toolOk>>

\* service.rs lines 249-253: a PingRequest is logged and answered
HandlePing(h) ==
    /\ hpc[h] = "idle"
    /\ Len(logpc) < MaxLogs
    /\ send_log
    /\ UNCHANGED <<stateLock, peerLock, peer, hpc, delivered, startup, npeers, toolOk>>

\* service.rs lines 66-102: a CallToolRequest with valid arguments takes
\* the state mutex
HandlerLock(h) ==
    /\ hpc[h] = "idle"
    /\ stateLock = Free
    /\ stateLock' = h
    /\ hpc' = [hpc EXCEPT ![h] = "locked"]
    /\ UNCHANGED <<peerLock, peer, logpc, delivered, startup, npeers, toolOk>>

\* the handler returns: the guard `state` is dropped
HandlerReturn(h) ==
    /\ stateLock' = Free
    /\ hpc' = [hpc EXCEPT ![h] = "idle"]

\* service.rs lines 105-114: the crate is not the one served
HandlerWrongCrate(h) ==
    /\ hpc[h] = "locked"
    /\ HandlerReturn(h)
    /\ UNCHANGED <<peerLock, peer, logpc, delivered, startup, npeers, toolOk>>

\* service.rs lines 116-138: the query is logged and the embedding request
\* for the question is awaited
HandlerEmbed(h) ==
    /\ hpc[h] = "locked"
    /\ Len(logpc) < MaxLogs
    /\ send_log
    /\ hpc' = [hpc EXCEPT ![h] = "await_embed"]
    /\ UNCHANGED <<stateLock, peerLock, peer, delivered, startup, npeers, toolOk>>

\* service.rs lines 135-149: the embedding request failed
HandlerEmbedFails(h) ==
    /\ hpc[h] = "await_embed"
    /\ HandlerReturn(h)
    /\ UNCHANGED <<peerLock, peer, logpc, delivered, startup, npeers, toolOk>>

\* service.rs lines 150-161, 233-246: no document matches, the answer is
\* returned without a chat request
HandlerNoContext(h) ==
    /\ hpc[h] = "await_embed"
    /\ HandlerReturn(h)
    /\ toolOk' = TRUE
    /\ UNCHANGED <<peerLock, peer, logpc, delivered, startup, npeers>>

\* service.rs lines 150-220: the best document is found and the chat
\* request is awaited
HandlerChat(h) ==
    /\ hpc[h] = "await_embed"
    /\ hpc' = [hpc EXCEPT ![h] = "await_chat"]
    /\ UNCHANGED <<stateLock, peerLock, peer, logpc, delivered, startup, npeers, toolOk>>

\* service.rs lines 220-246: the chat request completed or failed
HandlerChatDone(h) ==
    /\ hpc[h] = "await_chat"
    /\ HandlerReturn(h)
    /\ \E ok \in BOOLEAN : toolOk' = (toolOk \/ ok)
    /\ UNCHANGED <<peerLock, peer, logpc, delivered, startup, npeers>>

\* server.rs lines 202-203, 218-220: the task of message m takes the peer
\* mutex, finds no peer and ends
LogNoPeer(m) ==
    /\ logpc[m] = "spawned"
    /\ peerLock = Free /\ ~peer
    /\ logpc' = [logpc EXCEPT ![m] = "done"]
    /\ UNCHANGED <<stateLock, peerLock, peer, hpc, delivered, startup, npeers, toolOk>>

\* server.rs lines 202-215: the task of message m takes the peer mutex and
\* awaits send_notification
LogLock(m) ==
    /\ logpc[m] = "spawned"
    /\ peerLock = Free /\ peer
    /\ peerLock' = m
    /\ logpc' = [logpc EXCEPT ![m] = "await_send"]
    /\ UNCHANGED <<stateLock, peer, hpc, delivered, startup, npeers, toolOk>>

\* server.rs lines 215-221: the notification reached the peer; the guard
\* is dropped at the end of the task
LogSent(m) ==
    /\ logpc[m] = "await_send"
    /\ delivered' = Append(delivered, m)
    /\ peerLock' = Free
    /\ logpc' = [logpc EXCEPT ![m] = "done"]
    /\ UNCHANGED <<stateLock, peer, hpc, startup, npeers, toolOk>>

\* server.rs lines 215-217: send_notification returned an error
LogSendFails(m) ==
    /\ logpc[m] = "await_send"
    /\ peerLock' = Free
    /\ logpc' = [logpc EXCEPT ![m] = "done"]
    /\ UNCHANGED <<stateLock, peer, hpc, delivered, startup, npeers, toolOk>>

\* -------------------------------------------------------------------------
\* service.rs: handle_request, the CallToolRequest arm with its data
\* -------------------------------------------------------------------------
DocPaths == {"a.html", "b.html"}
Scores == {1, 2}          \* cosine similarity to the question
CrateParams == {"serde", "tokio"}

\* ServerState (state.rs): any documents and any (path, embedding) pairs; the
\* embedding is known by its similarity to the question
QueryStates ==
    {[crate_name |-> "serde", documents |-> d, embeddings |-> e] :
        d \in UNION {[1..n -> {Document(q, <<97>>) : q \in DocPaths}] : n \in 0..MaxDocs},
        e \in UNION {[1..n -> [path : DocPaths, score : Scores]] : n \in 0..MaxDocs}}

NoResponse == [kind |-> "none"]
McpErrorData(code) == [kind |-> "Err", code |-> code]
CallToolResult(text) == [kind |-> "Ok", is_error |-> FALSE, text |-> text]

QueryIdle ==
    /\ qstate = [crate_name |-> "serde", documents |-> <<>>, embeddings |-> <<>>]
    /\ qpc = "idle" /\ qreq = None /\ qbest = None /\ qcalls = <<>>
    /\ qresp = NoResponse

\* an equal score replaces the best match so far
RECURSIVE BestLoop_LastMaximum(_, _, _)
BestLoop_LastMaximum(embeddings, i, best) ==
    IF i > Len(embeddings) THEN best
    ELSE IF best = None \/ embeddings[i].score >= best[1].score
         THEN BestLoop_LastMaximum(embeddings, i + 1, Some(embeddings[i]))
         ELSE BestLoop_LastMaximum(embeddings, i + 1, best)

\* lines 152-159: the first embedding of the highest score
RECURSIVE BestLoop(_, _, _)
BestLoop(embeddings, i, best) ==
    IF i > Len(embeddings) THEN best
    ELSE IF best = None \/ embeddings[i].score > best[1].score
         THEN BestLoop(embeddings, i + 1, Some(embeddings[i]))
         ELSE BestLoop(embeddings, i + 1, best)

best_match(embeddings) == BestLoop(embeddings, 1, None)

\* lines 165-168: state.documents.iter().find(|doc| doc.path == best_path)
context_doc(documents, best_path) ==
    LET hits == {i \in 1..Len(documents) : documents[i].path = best_path}
    IN  IF hits = {} THEN None
        ELSE Some(documents[CHOOSE i \in hits : \A j \in hits : i <= j])

\* a wrong crate answered only after the embedding request for the question
QueryWrongCrate_EmbedsFirst ==
    /\ qpc = "idle"
    /\ \E c \in CrateParams :
          /\ c # qstate.crate_name
          /\ qreq' = Some(c)
    /\ qcalls' = <<"embed">>
    /\ qresp' = McpErrorData("INVALID_PARAMS")
    /\ qbest' = None
    /\ UNCHANGED <<qstate, qpc>>

\* lines 102-114: the crate argument is not the crate of the state
QueryWrongCrate ==
    /\ qpc = "idle"
    /\ \E c \in CrateParams :
          /\ c # qstate.crate_name
          /\ qreq' = Some(c)
    /\ qcalls' = <<>>
    /\ qresp' = McpErrorData("INVALID_PARAMS")
    /\ qbest' = None
    /\ UNCHANGED <<qstate, qpc>>

\* lines 105-138: the crate is the one served, the embedding of the question
\* is requested
QueryEmbed ==
    /\ qpc = "idle"
    /\ \E c \in CrateParams :
          /\ c = qstate.crate_name
          /\ qreq' = Some(c)
    /\ qcalls' = <<"embed">>
    /\ qresp' = NoResponse
    /\ qbest' = None
    /\ qpc' = "await_embed"
    /\ UNCHANGED qstate

\* lines 119-149: no client, the request fails, or the response is empty
QueryEmbedFails ==
    /\ qpc = "await_embed"
    /\ qresp' = McpErrorData("INTERNAL_ERROR")
    /\ qpc' = "idle"
    /\ UNCHANGED <<qstate, qreq, qbest, qcalls>>

\* lines 152-161, 237-246: no embedding at all
QueryNoEmbeddings ==
    /\ qpc = "await_embed"
    /\ best_match(qstate.embeddings) = None
    /\ qresp' = CallToolResult("Could not find any relevant document context.")
    /\ qpc' = "idle"
    /\ UNCHANGED <<qstate, qreq, qbest, qcalls>>

\* lines 161-170, 233-246: no document has the best path
QueryNoDocument ==
    /\ qpc = "await_embed"
    /\ best_match(qstate.embeddings) # None
    /\ LET best == best_match(qstate.embeddings)[1].path
       IN  /\ context_doc(qstate.documents, best) = None
           /\ qbest' = Some(best)
    /\ qresp' = CallToolResult("Error: Could not find content for best matching document.")
    /\ qpc' = "idle"
    /\ UNCHANGED <<qstate, qreq, qcalls>>

\* lines 161-220: the document of the best path is found, the chat
\* completion is requested
QueryChat ==
    /\ qpc = "await_embed"
    /\ best_match(qstate.embeddings) # None
    /\ LET best == best_match(qstate.embeddings)[1].path
       IN  /\ context_doc(qstate.documents, best) # None
           /\ qbest' = Some(best)
    /\ qcalls' = Append(qcalls, "chat")
    /\ qpc' = "await_chat"
    /\ UNCHANGED <<qstate, qreq, qresp>>

\* lines 192-225: a message or the request cannot be built, or the chat
\* request fails
QueryChatFails ==
    /\ qpc = "await_chat"
    /\ qresp' = McpErrorData("INTERNAL_ERROR")
    /\ qpc' = "idle"
    /\ UNCHANGED <<qstate, qreq, qbest, qcalls>>

\* lines 227-246: the answer of the model, or the text for no choice
QueryChatDone ==
    /\ qpc = "await_chat"
    /\ \E text \in {"answer", "Error: No response from LLM."} :
          qresp' = CallToolResult(text)
    /\ qpc' = "idle"
    /\ UNCHANGED <<qstate, qreq, qbest, qcalls>>

\* -------------------------------------------------------------------------
\* crate_discovery.rs: find_matching_crate_names
\* -------------------------------------------------------------------------
Hyphen == 45
Underscore == 95

\* str::replace for one character
replace(name, from, to) == [k \in 1..Len(name) |-> IF name[k] = from THEN to ELSE name[k]]

\* str::to_lowercase on ASCII
to_lowercase(name) ==
    [k \in 1..Len(name) |-> IF name[k] \in 65..90 THEN name[k] + 32 ELSE name[k]]

\* str::contains
contains(haystack, needle) ==
    \E k \in 0..(Len(haystack) - Len(needle)) :
        SubSeq(haystack, k + 1, k + Len(needle)) = needle

\* lines 51-53
normalize_crate_name(name) == replace(name, Hyphen, Underscore)

\* lines 63-74: the filter of find_matching_crate_names
Matches(crate_name, c) ==
    LET normalized_name == normalize_crate_name(crate_name)
        with_hyphens == replace(normalized_name, Underscore, Hyphen)
        c_lower == to_lowercase(c)
        normalized_lower == to_lowercase(normalized_name)
        hyphen_lower == to_lowercase(with_hyphens)
    IN  \/ c_lower = normalized_lower
        \/ c_lower = hyphen_lower
        \/ contains(c_lower, normalized_lower)
        \/ contains(normalized_lower, c_lower)

\* lines 62-77
find_matching_crate_names(crate_name, available_crates) ==
    SelectSeq(available_crates, LAMBDA c : Matches(crate_name, c))

\* crate names: every string of 1..MaxName characters over '-', '_', 'a',
\* and two names with capitals
NameBytes == {Hyphen, Underscore, 97}
Names == UNION {[1..n -> NameBytes] : n \in 1..MaxName} \cup {<<65>>, <<65, Underscore, 97>>}
AvailableLists ==
    {<<c>> : c \in Names} \cup {<<<<97>>, <<97, Hyphen, 97>>, <<97, Underscore, 97>>, <<65>>>>}

MatchIdle == mq = <<>> /\ mavail = <<>> /\ mres = [kind |-> "notrun"]

FindMatchingCrateNames ==
    /\ mres.kind = "notrun"
    /\ mres' = [kind |-> "done", similar |-> find_matching_crate_names(mq, mavail)]
    /\ UNCHANGED <<mq, mavail>>

\* -------------------------------------------------------------------------
\* embeddings.rs: cosine_similarity, with the arithmetic of f32
\* -------------------------------------------------------------------------
\* f32 has 24 significant bits. A finite value is zero or
\* sign * mant * 2^exp with 2^23 <= mant < 2^24. The runs stay inside the
\* normal range, so exp is not limited here; -0.0, which == does not tell
\* from 0.0, is F32Zero.
MANTISSA_DIGITS == 24

RECURSIVE Pow2(_)
Pow2(n) == IF n = 0 THEN 1 ELSE 2 * Pow2(n - 1)

HalfWord == Pow2(MANTISSA_DIGITS \div 2)
Hidden == Pow2(MANTISSA_DIGITS - 1)
Word == Pow2(MANTISSA_DIGITS)

F32Zero == [sign |-> 1, mant |-> 0, exp |-> 0]

Cmp(a, b) == IF a < b THEN 0 - 1 ELSE IF a = b THEN 0 ELSE 1

\* round to nearest, ties to even: cmp tells the discarded part from one
\* half of the last place
RoundTiesEven(sign, mant, exp, cmp) ==
    LET up == cmp > 0 \/ (cmp = 0 /\ mant % 2 = 1)
        m == IF up THEN mant + 1 ELSE mant
    IN  IF m = Word THEN [sign |-> sign, mant |-> Hidden, exp |-> exp + 1]
        ELSE [sign |-> sign, mant |-> m, exp |-> exp]

\* the 48-bit product of two mantissas, as hi * 2^24 + lo
WideMul(x, y) ==
    LET xh == x \div HalfWord
        xl == x % HalfWord
        yh == y \div HalfWord
        yl == y % HalfWord
        mid == xh * yl + xl * yh
        t == (mid % HalfWord) * HalfWord + xl * yl
    IN  [hi |-> xh * yh + mid \div HalfWord + t \div Word, lo |-> t % Word]

WideLeq(a, b) == a.hi < b.hi \/ (a.hi = b.hi /\ a.lo <= b.lo)

WideAdd(a, n) ==
    [hi |-> a.hi + (a.lo + n) \div Word, lo |-> (a.lo + n) % Word]

\* a * b
f32_mul(a, b) ==
    IF a.mant = 0 \/ b.mant = 0 THEN F32Zero
    ELSE LET p == WideMul(a.mant, b.mant)
             s == a.sign * b.sign
             e == a.exp + b.exp
         IN  IF p.hi >= Hidden
             THEN RoundTiesEven(s, p.hi, e + MANTISSA_DIGITS, Cmp(p.lo, Hidden))
             ELSE RoundTiesEven(s, 2 * p.hi + p.lo \div Hidden,
                                e + MANTISSA_DIGITS - 1,
                                Cmp(2 * (p.lo % Hidden), Hidden))

RECURSIVE DivLoop(_, _, _, _)
DivLoop(rem, d, q, bits) ==
    IF bits = 0 THEN [q |-> q, rem |-> rem]
    ELSE IF 2 * rem >= d THEN DivLoop(2 * rem - d, d, 2 * q + 1, bits - 1)
    ELSE DivLoop(2 * rem, d, 2 * q, bits - 1)

\* a / b, b not zero
f32_div(a, b) ==
    IF a.mant = 0 THEN F32Zero
    ELSE LET s == a.sign * b.sign
             r == IF a.mant >= b.mant
                  THEN DivLoop(a.mant - b.mant, b.mant, 1, MANTISSA_DIGITS - 1)
                  ELSE DivLoop(a.mant, b.mant, 0, MANTISSA_DIGITS)
             e == IF a.mant >= b.mant
                  THEN a.exp - b.exp - (MANTISSA_DIGITS - 1)
                  ELSE a.exp - b.exp - MANTISSA_DIGITS
         IN  RoundTiesEven(s, r.q, e, Cmp(2 * r.rem, b.mant))

\* the largest s with s * s <= n, found bit by bit
RECURSIVE SqrtLoop(_, _, _)
SqrtLoop(n, s, bit) ==
    IF bit < 0 THEN s
    ELSE LET t == s + Pow2(bit)
         IN  IF WideLeq(WideMul(t, t), n) THEN SqrtLoop(n, t, bit - 1)
             ELSE SqrtLoop(n, s, bit - 1)

\* a.sqrt(), a not negative: the exponent is made even, the root of the
\* 48-bit mantissa is taken and rounded (a tie cannot happen)
f32_sqrt(a) ==
    IF a.mant = 0 THEN F32Zero
    ELSE LET k == IF (a.exp - (MANTISSA_DIGITS - 1)) % 2 = 0
                  THEN MANTISSA_DIGITS - 1 ELSE MANTISSA_DIGITS
             n == IF k = MANTISSA_DIGITS
                  THEN [hi |-> a.mant, lo |-> 0]
                  ELSE [hi |-> a.mant \div 2, lo |-> (a.mant % 2) * Hidden]
             s == SqrtLoop(n, 0, MANTISSA_DIGITS - 1)
             above == ~WideLeq(n, WideAdd(WideMul(s, s), s))
         IN  RoundTiesEven(1, s, (a.exp - k) \div 2, IF above THEN 1 ELSE 0 - 1)

\* an integer below 2^24 as f32, and back
RECURSIVE Normalise(_, _, _)
Normalise(sign, mant, exp) ==
    IF mant >= Hidden THEN [sign |-> sign, mant |-> mant, exp |-> exp]
    ELSE Normalise(sign, 2 * mant, exp - 1)

f32_from(n) ==
    IF n = 0 THEN F32Zero
    ELSE IF n < 0 THEN Normalise(0 - 1, 0 - n, 0) ELSE Normalise(1, n, 0)

f32_to_int(a) == a.sign * (a.mant \div Pow2(0 - a.exp))

\* a + b for whole numbers whose sum is below 2^24: such a sum is exact
f32_add(a, b) == f32_from(f32_to_int(a) + f32_to_int(b))

\* v1.dot(&v2) of ndarray: the sum of the products
RECURSIVE DotLoop(_, _, _, _)
DotLoop(a, b, i, sum) ==
    IF i > Len(a) THEN sum
    ELSE DotLoop(a, b, i + 1, f32_add(sum, f32_mul(a[i], b[i])))

dot(a, b) == DotLoop(a, b, 1, F32Zero)

cosine_similarity(a, b) ==
    LET dot_product == dot(a, b)
        norm_v1 == f32_sqrt(dot(a, a))
        norm_v2 == f32_sqrt(dot(b, b))
    IN  IF norm_v1 = F32Zero \/ norm_v2 = F32Zero THEN F32Zero
        ELSE f32_div(dot_product, f32_mul(norm_v1, norm_v2))

\* the components of the vectors: the whole numbers up to MaxComponent
Components == {f32_from(n) : n \in (0 - MaxComponent)..MaxComponent}
F32Vectors == SeqsUpTo(Components, MaxDim)

CosIdle == v1 = <<>> /\ v2 = <<>> /\ similarity = None

CosineSimilarity ==
    /\ similarity = None
    /\ similarity' = Some(cosine_similarity(v1, v2))
    /\ UNCHANGED <<v1, v2>>

\* -------------------------------------------------------------------------
\* embedding_cache_service.rs: get_embedding_for_chunk
\* -------------------------------------------------------------------------
\* the chunk contents asked for: "a" and "b"
ChunkContents == {<<97>>, <<98>>}

\* the vectors the endpoint answers with; it need not give the same vector
\* twice for one content
EndpointVectors == {<<"1.0">>, <<"0.5">>}

EMBEDDING_MODEL == "text-embedding-3-small"

\* lines 21-27, 191-196
CachedEmbedding(vector, document) ==
    [vector |-> vector, document |-> document, model |-> EMBEDDING_MODEL,
     provider |-> "OpenAI"]

\* serde_json::to_string of a CachedEmbedding: the text of an object with
\* the four fields in the order of the struct
to_json(cached) ==
    <<"{", cached.vector, cached.document, cached.model, cached.provider, "}">>

\* serde_json::from_str: None for a text that is not a whole object
from_json(text) ==
    IF Len(text) = 6 /\ text[1] = "{" /\ text[6] = "}"
      THEN Some([vector |-> text[2], document |-> text[3], model |-> text[4],
                 provider |-> text[5]])
      ELSE None

\* lines 58-60, 98-99: the file of a content is named by its chunk id
cache_path(chunk_content) == generate_chunk_id(chunk_content)
CachePaths == {cache_path(c) : c \in ChunkContents}

\* What an earlier run can have left under a path: nothing, a record, of
\* the content of the path or of another content, or an empty file
LeftBehind ==
    {None, Some(<<>>)}
        \cup {Some(to_json(CachedEmbedding(<<"1.0">>, c))) : c \in ChunkContents}

Embedding(values) == [kind |-> "Ok", values |-> values]
ServiceError(what) == [kind |-> "Err", what |-> what]

\* the document of the record is not compared with the content asked for
read_cached_embedding_Unverified(text, original_document) ==
    LET cached == from_json(text)
    IN  IF cached = None THEN ServiceError("json")
        ELSE Embedding(cached[1].vector)

\* lines 161-184: the text of the file is parsed and the document compared
read_cached_embedding(text, original_document) ==
    LET cached == from_json(text)
    IN  IF cached = None THEN ServiceError("json")
        ELSE IF cached[1].document # original_document THEN ServiceError("InvalidData")
        ELSE Embedding(cached[1].vector)

NoCall == [content |-> <<>>, requests |-> 0, ioError |-> FALSE, before |-> None,
           record |-> None, result |-> [kind |-> "none"]]

SvcIdle ==
    /\ cache_dir = [f \in CachePaths |-> None]
    /\ epc = "idle" /\ ecall = NoCall
    /\ served = [c \in ChunkContents |-> None]

\* a call begins: what it starts from
Begin(c) == [content |-> c, requests |-> 0, ioError |-> FALSE, before |-> served[c],
             record |-> None, result |-> [kind |-> "none"]]

\* the call returns r
Returns(call, r) ==
    /\ ecall' = [call EXCEPT !.result = r]
    /\ served' = IF r.kind = "Ok" THEN [served EXCEPT ![call.content] = Some(r.values)]
                  ELSE served
    /\ epc' = "idle"

\* lines 96-103: the file is there, it is read and answers the call
CallCached ==
    /\ epc = "idle"
    /\ \E c \in ChunkContents :
          /\ cache_dir[cache_path(c)] # None
          /\ LET text == cache_dir[cache_path(c)][1]
             IN  Returns([Begin(c) EXCEPT !.record = from_json(text)],
                         read_cached_embedding(text, c))
    /\ UNCHANGED cache_dir

\* lines 101-102, 162: the file is there and fs::read_to_string fails
CallReadFails ==
    /\ epc = "idle"
    /\ \E c \in ChunkContents :
          /\ cache_dir[cache_path(c)] # None
          /\ Returns([Begin(c) EXCEPT !.ioError = TRUE], ServiceError("io"))
    /\ UNCHANGED cache_dir

\* lines 101-105, 186-188, 230-236: no file is seen (there is none, or
\* Path::exists could not look and says false), the embedding is requested
CallRequests ==
    /\ epc = "idle"
    /\ \E c \in ChunkContents :
          ecall' = [Begin(c) EXCEPT !.requests = 1,
                                    !.ioError = (cache_dir[cache_path(c)] # None)]
    /\ epc' = "await"
    /\ UNCHANGED <<cache_dir, served>>

\* lines 236-259: the request fails or the response has no data
RequestFails ==
    /\ epc = "await"
    /\ Returns(ecall, ServiceError("api"))
    /\ UNCHANGED cache_dir

\* lines 190-201: the embedding arrived, the record is written, the
\* embedding is returned
RequestDone ==
    /\ epc = "await"
    /\ \E v \in EndpointVectors :
          /\ cache_dir' = [cache_dir EXCEPT ![cache_path(ecall.content)] =
                               Some(to_json(CachedEmbedding(v, ecall.content)))]
          /\ Returns(ecall, Embedding(v))

\* line 199: fs::write fails, before the file is created or after it was
\* truncated
RequestDoneWriteFails ==
    /\ epc = "await"
    /\ \E left \in {cache_dir[cache_path(ecall.content)], Some(<<>>)} :
          cache_dir' = [cache_dir EXCEPT ![cache_path(ecall.content)] = left]
    /\ ecall' = [ecall EXCEPT !.ioError = TRUE, !.result = ServiceError("io")]
    /\ served' = [served EXCEPT ![ecall.content] = None]
    /\ epc' = "idle"

\* -------------------------------------------------------------------------
\* bin/gen-rust-docs-mcp-server-config.rs: generate_mcp_config
\* -------------------------------------------------------------------------
\* Dependency names as bytes: a_b, a-b, .a, a/b
DepNames == {<<97, 95, 98>>, <<97, 45, 98>>, <<46, 97>>, <<97, 47, 98>>}

\* The value of a dependency: a version string, or a table with some of the
\* keys version, path, git
DepValues ==
    {[type |-> "String", keys |-> {}]}
        \cup {[type |-> "Object", keys |-> k] : k \in {{"version"}, {"path"}, {"git", "version"}}}

\* lines 50-58: the three dependency tables, in the order they are processed
Sections == <<"dependencies", "dev-dependencies", "build-dependencies">>

Dependency(section, name, value) == [section |-> section, name |-> name, value |-> value]

\* the subsets of S of at most k elements
RECURSIVE SubsetsUpTo(_, _)
SubsetsUpTo(S, k) ==
    IF k = 0 THEN {{}}
    ELSE LET smaller == SubsetsUpTo(S, k - 1)
         IN  smaller \cup {m \cup {d} : m \in smaller, d \in S}

\* the manifests: up to MaxDeps dependencies, a name at most once per section
Manifests ==
    LET all == {Dependency(Sections[k], n, v) : k \in 1..3, n \in DepNames, v \in DepValues}
    IN  {m \in SubsetsUpTo(all, MaxDeps) :
            \A d, e \in m : (d.section = e.section /\ d.name = e.name) => d = e}

\* the order of String keys in a BTreeMap: byte-wise lexicographic
RECURSIVE LexLess(_, _)
LexLess(a, b) ==
    IF b = <<>> THEN FALSE
    ELSE IF a = <<>> THEN TRUE
    ELSE IF Head(a) # Head(b) THEN Head(a) < Head(b)
    ELSE LexLess(Tail(a), Tail(b))

\* line 179: the dependencies of one section in the order of iteration
RECURSIVE InKeyOrder(_)
InKeyOrder(deps) ==
    IF deps = {} THEN <<>>
    ELSE LET first == CHOOSE d \in deps : \A e \in deps \ {d} : LexLess(d.name, e.name)
         IN  <<first>> \o InKeyOrder(deps \ {first})

\* usize formatted with {}
RECURSIVE to_decimal(_)
to_decimal(n) == IF n < 10 THEN <<48 + n>> ELSE Append(to_decimal(n \div 10), 48 + (n % 10))

\* "rust-docs-"
RustDocsPrefix == <<114, 117, 115, 116, 45, 100, 111, 99, 115, 45>>

\* the id without the running index
server_id_NoIndex(name, index) == RustDocsPrefix \o replace(name, Underscore, Hyphen)

\* line 193: format!("rust-docs-{}-{}", name.replace('_', "-"), *index)
server_id(name, index) ==
    RustDocsPrefix \o replace(name, Underscore, Hyphen) \o <<Hyphen>> \o to_decimal(index)

\* line 181: the names that are skipped
InvalidName(name) ==
    \/ name # <<>> /\ name[1] = 46
    \/ contains(name, <<47>>)
    \/ contains(name, <<92>>)

\* line 185: a table with a path or a git key
LocalOrGit(value) ==
    value.type = "Object" /\ ("path" \in value.keys \/ "git" \in value.keys)

\* lines 211-236: the version of extract_version_and_features
extract_version(value) ==
    IF value.type = "String" THEN "1.0"
    ELSE IF value.type = "Object" /\ "version" \in value.keys THEN "1.0"
    ELSE "*"

\* lines 179-206: the loop of process_dependencies over one section; servers
\* is the JSON object as a set of entries, an insert under an id that is
\* there replaces the entry
RECURSIVE process_dependencies(_, _, _)
process_dependencies(servers, dependencies, index) ==
    IF dependencies = <<>> THEN [servers |-> servers, index |-> index]
    ELSE LET d == Head(dependencies)
         IN  IF InvalidName(d.name) \/ LocalOrGit(d.value)
               THEN process_dependencies(servers, Tail(dependencies), index)
               ELSE LET id == server_id(d.name, index)
                        entry == [id |-> id, of |-> d,
                                  args |-> <<d.name, extract_version(d.value)>>,
                                  roo |-> FALSE]
                    IN  process_dependencies(
                            {e \in servers : e.id # id} \cup {entry},
                            Tail(dependencies), index + 1)

\* lines 128-142: the three sections one after the other, one running index
RECURSIVE SectionLoop(_, _, _, _)
SectionLoop(toml, k, servers, index) ==
    IF k > Len(Sections) THEN servers
    ELSE LET r == process_dependencies(servers,
                      InKeyOrder({d \in toml : d.section = Sections[k]}), index)
         IN  SectionLoop(toml, k + 1, r.servers, r.index)

\* lines 145-161: the Roo style adds env, disabled and alwaysAllow
generate_mcp_config(style, toml) ==
    {[e EXCEPT !.roo = (style = "Roo")] : e \in SectionLoop(toml, 1, {}, 0)}

GenIdle ==
    /\ cargo_toml = {} /\ config_style = "ClaudeDesktop" /\ gpc = "idle"
    /\ mcp_config = {}

\* lines 99-100: the configuration of the manifest is generated
GenerateMcpConfig ==
    /\ gpc = "start"
    /\ mcp_config' = generate_mcp_config(config_style, cargo_toml)
    /\ gpc' = "done"
    /\ UNCHANGED <<cargo_toml, config_style>>

\* -------------------------------------------------------------------------
\* server.rs: add_crate, has_crate, list_crate_names, list_resources,
\* read_resource. Every access to SERVER_STATE.crates takes the mutex and
\* gives it back without an await in between: it is one step.
\* -------------------------------------------------------------------------
Writers == {1, 2}
Readers == {1}

\* what the k-th ingestion of a crate hands to add_crate
IngestionData(k) ==
    [documents |-> <<Document(PathAt(1), <<96 + k>>)>>,
     embeddings |-> <<[path |-> PathAt(1), vector |-> Ramp(k)]>>]

RegIdle ==
    /\ wpc = [w \in Writers |-> None]
    /\ snap = [r \in Readers |-> None]
    /\ rres = [op |-> "none"]

\* lines 169-178: add_crate is called and builds its CrateData
AddCrateBuild(w) ==
    /\ wpc[w] = None
    /\ \E name \in RegistryNames, k \in 1..MaxIngest :
          wpc' = [wpc EXCEPT ![w] = Some([crate_name |-> name, crate_data |-> IngestionData(k)])]
    /\ UNCHANGED <<crates, snap, rres>>

\* lines 180-183: the entry is inserted under the mutex
AddCrateInsert(w) ==
    /\ wpc[w] # None
    /\ crates' = add_crate(crates, wpc[w][1].crate_name, wpc[w][1].crate_data)
    /\ wpc' = [wpc EXCEPT ![w] = None]
    /\ UNCHANGED <<snap, rres>>

\* lines 369-375 (commented query_rust_docs): a reader takes the mutex,
\* clones the entry (two Arc clones) and drops the guard
Snapshot(r) ==
    /\ \E name \in RegistryNames :
          /\ crates[name] # None
          /\ snap' = [snap EXCEPT ![r] = Some([crate_name |-> name, data |-> crates[name][1]])]
    /\ UNCHANGED <<crates, wpc, rres>>

\* lines 187-190
has_crate_Always(registry, crate_name) == TRUE

has_crate(registry, crate_name) ==
    \E n \in DOMAIN registry : registry[n] # None /\ crate_name = <<n>>

\* lines 193-196: the keys, in the order of the HashMap
list_crate_names(registry) ==
    LET keys == {n \in DOMAIN registry : registry[n] # None}
    IN  {order \in [1..Cardinality(keys) -> keys] :
            \A i, j \in 1..Cardinality(keys) : i # j => order[i] # order[j]}

\* a URI is the sequence of its pieces; format!("crate://{}", name)
CrateUri(name) == <<"crate://", name>>

\* str::strip_prefix
strip_prefix(uri, prefix) ==
    IF uri # <<>> /\ Head(uri) = prefix THEN Some(Tail(uri)) ELSE None

Uris ==
    {CrateUri(n) : n \in RegistryNames \cup {"x"}}
        \cup {<<"file://", "serde">>, <<"serde">>, <<"crate://">>, <<"crate://", "crate://", "serde">>}

\* lines 602-618
ListResources ==
    /\ rres.op = "none"
    /\ \E names \in list_crate_names(crates) :
          rres' = [op |-> "list",
                   resources |-> [i \in 1..Len(names) |->
                                     [uri |-> CrateUri(names[i]), name |-> names[i]]]]
    /\ UNCHANGED <<crates, wpc, snap>>

\* lines 620-638
ReadResource ==
    /\ rres.op = "none"
    /\ \E uri \in Uris :
          LET crate_name == strip_prefix(uri, "crate://")
          IN  rres' = [op |-> "read", uri |-> uri,
                       ok |-> crate_name # None /\ has_crate(crates, crate_name[1])]
    /\ UNCHANGED <<crates, wpc, snap>>

\* the result has gone to the client
ResourceReturn ==
    /\ rres.op # "none"
    /\ rres' = [op |-> "none"]
    /\ UNCHANGED <<crates, wpc, snap>>

\* -------------------------------------------------------------------------
\* server.rs: SERVER_STATE and RustDocsServer::new. The state is one static
\* for the process; new locks its fields one after the other, and a task of
\* another handle can run between two of these steps.
\* -------------------------------------------------------------------------
\* HashMap::clear that leaves the map as it is
clear_Noop(registry) == registry

\* lines 129-130: crates.clear()
clear(registry) == [n \in DOMAIN registry |-> None]

\* before records the crates that were loaded when new was called
NoNew == [step |-> "idle", enable_lazy_loading |-> FALSE, calls |-> 0, before |-> {}]

Queries == {1, 2}
NoQuery == [step |-> "idle"]

StateIdle ==
    /\ enable_lazy_loading = FALSE
    /\ avail_crates = {}
    /\ server_peer = None
    /\ npc = NoNew
    /\ fresh = {}
    /\ qtask = [q \in Queries |-> NoQuery]
    /\ loads = [n \in RegistryNames |-> 0]

\* lines 97-125: new is called; config_info, workspace_path, features and
\* enable_lazy_loading are set
NewConfigure ==
    /\ npc.step \in {"idle", "returned"}
    /\ npc.calls < MaxNew
    /\ \E lazy \in BOOLEAN :
          /\ enable_lazy_loading' = lazy
          /\ npc' = [step |-> "clear", enable_lazy_loading |-> lazy, calls |-> npc.calls + 1,
                  before |-> {n \in RegistryNames : crates[n] # None}]
    /\ fresh' = {}
    /\ UNCHANGED <<crates, wpc, snap, rres, avail_crates, server_peer, qtask, loads>>

\* lines 127-131
NewClear ==
    /\ npc.step = "clear"
    /\ crates' = clear(crates)
    /\ npc' = [npc EXCEPT !.step = "peer"]
    /\ UNCHANGED <<wpc, snap, rres, enable_lazy_loading, avail_crates, server_peer,
                   fresh, qtask, loads>>

\* lines 133-137
NewResetPeer ==
    /\ npc.step = "peer"
    /\ server_peer' = None
    /\ npc' = [npc EXCEPT !.step = "discover"]
    /\ UNCHANGED <<crates, wpc, snap, rres, enable_lazy_loading, avail_crates, fresh,
                   qtask, loads>>

\* lines 139-165: with lazy loading the set is what
\* discover_available_crates found under target/doc (nothing when it
\* failed), without it the set is cleared; new returns
NewDiscover ==
    /\ npc.step = "discover"
    /\ \E discovered \in SUBSET RegistryNames :
          avail_crates' = IF npc.enable_lazy_loading THEN discovered ELSE {}
    /\ npc' = [npc EXCEPT !.step = "returned"]
    /\ UNCHANGED <<crates, wpc, snap, rres, enable_lazy_loading, server_peer, fresh,
                   qtask, loads>>

\* add_crate through any handle; fresh keeps the names inserted since the
\* last new was called
AddCrateBuildAny(w) ==
    /\ AddCrateBuild(w)
    /\ UNCHANGED <<enable_lazy_loading, avail_crates, server_peer, npc, fresh, qtask,
                   loads>>

AddCrateInsertAny(w) ==
    /\ AddCrateInsert(w)
    /\ fresh' = fresh \cup {wpc[w][1].crate_name}
    /\ UNCHANGED <<enable_lazy_loading, avail_crates, server_peer, npc, qtask, loads>>

\* ---- query_rust_docs (commented out in server.rs), lines 359-449 ----
QueryDone(name, how, result) ==
    [step |-> "done", crate_name |-> name, how |-> how, result |-> result]

\* lines 369-376: the crate is loaded, its data is cloned
QueryLoaded(q) ==
    /\ qtask[q].step = "idle"
    /\ \E name \in RegistryNames :
          /\ crates[name] # None
          /\ qtask' = [qtask EXCEPT ![q] = QueryDone(name, "loaded", "Ok")]
    /\ UNCHANGED <<crates, wpc, snap, rres, enable_lazy_loading, avail_crates,
                   server_peer, npc, fresh, loads>>

\* lines 377-380, 435-447: not loaded, lazy loading disabled
QueryNotLazy(q) ==
    /\ qtask[q].step = "idle"
    /\ ~enable_lazy_loading
    /\ \E name \in RegistryNames :
          /\ crates[name] = None
          /\ qtask' = [qtask EXCEPT ![q] = QueryDone(name, "none", "Err")]
    /\ UNCHANGED <<crates, wpc, snap, rres, enable_lazy_loading, avail_crates,
                   server_peer, npc, fresh, loads>>

\* lines 377-386, 417-433: not loaded and not in available_crates
QueryNotAvailable(q) ==
    /\ qtask[q].step = "idle"
    /\ enable_lazy_loading
    /\ \E name \in RegistryNames :
          /\ crates[name] = None
          /\ name \notin avail_crates
          /\ qtask' = [qtask EXCEPT ![q] = QueryDone(name, "none", "Err")]
    /\ UNCHANGED <<crates, wpc, snap, rres, enable_lazy_loading, avail_crates,
                   server_peer, npc, fresh, loads>>

\* lines 377-401: not loaded, lazy loading enabled, the crate is available:
\* the guard of the map is dropped and load_crate_data is called
QueryLoadBegin(q) ==
    /\ qtask[q].step = "idle"
    /\ enable_lazy_loading
    /\ \E name \in RegistryNames :
          /\ crates[name] = None
          /\ name \in avail_crates
          /\ qtask' = [qtask EXCEPT ![q] = [step |-> "loading", crate_name |-> name]]
          /\ loads' = [loads EXCEPT ![name] = loads[name] + 1]
    /\ UNCHANGED <<crates, wpc, snap, rres, enable_lazy_loading, avail_crates,
                   server_peer, npc, fresh>>

\* lines 400-402: load_crate_data failed, the query returns the error
QueryLoadFails(q) ==
    /\ qtask[q].step = "loading"
    /\ qtask' = [qtask EXCEPT ![q] = QueryDone(qtask[q].crate_name, "lazy", "Err")]
    /\ UNCHANGED <<crates, wpc, snap, rres, enable_lazy_loading, avail_crates,
                   server_peer, npc, fresh, loads>>

\* lines 400-416: load_crate_data returned, the map is locked again and the
\* crate inserted
QueryLoadInsert(q) ==
    /\ qtask[q].step = "loading"
    /\ \E k \in 1..MaxIngest :
          crates' = add_crate(crates, qtask[q].crate_name, IngestionData(k))
    /\ qtask' = [qtask EXCEPT ![q] = QueryDone(qtask[q].crate_name, "lazy", "Ok")]
    /\ UNCHANGED <<wpc, snap, rres, enable_lazy_loading, avail_crates, server_peer,
                   npc, fresh, loads>>

\* -------------------------------------------------------------------------
\* Specifications
\* -------------------------------------------------------------------------
\* -------------------------------------------------------------------------
\* Chunker runs: a document and a chunker are chosen, chunk_document is
\* applied; then the document is edited inside one byte window and
\* chunked again.
\* -------------------------------------------------------------------------
ParamTriples ==
    {with_params(a, b, c) : a \in 0..MaxParam, b \in 0..MaxParam, c \in 0..MaxParam}
        \cup {new}

ChunkIdle == doc = <<>> /\ cp = new /\ out = NotRun /\ doc2 = <<>> /\ out2 = NotRun

InitChunk ==
    /\ CacheIdle /\ EmbedIdle /\ IngestIdle /\ LoaderIdle /\ ServeIdle /\ HashIdle /\ QueryIdle /\ MatchIdle /\ RegIdle /\ RenderIdle /\ GenIdle /\ SvcIdle /\ CosIdle /\ StateIdle
    /\ doc \in DocsOf(MaxChars)
    /\ cp \in ParamTriples
    /\ out = NotRun
    /\ doc2 = <<>>
    /\ out2 = NotRun

InitEdit ==
    /\ CacheIdle /\ EmbedIdle /\ IngestIdle /\ LoaderIdle /\ ServeIdle /\ HashIdle /\ QueryIdle /\ MatchIdle /\ RegIdle /\ RenderIdle /\ GenIdle /\ SvcIdle /\ CosIdle /\ StateIdle
    /\ doc \in DocsOf(MaxEditChars)
    /\ cp \in ParamTriples
    /\ out = NotRun
    /\ doc2 = <<>>
    /\ out2 = NotRun

ChunkDocument ==
    /\ out = NotRun
    /\ out' = chunk_document(cp, doc)
    /\ UNCHANGED <<doc, cp, doc2, out2>>

\* d and e have the same length and differ only inside one window of at most
\* L bytes
DifferInWindow(d, e, L) ==
    /\ Len(d) = Len(e)
    /\ d # e
    /\ LET diff == {k \in 1..Len(d) : d[k] # e[k]}
           lo == CHOOSE k \in diff : \A m \in diff : k <= m
           hi == CHOOSE k \in diff : \A m \in diff : k >= m
       IN  hi - lo + 1 <= L

EditAndChunk ==
    /\ out # NotRun
    /\ out2 = NotRun
    /\ \E e \in DocsOf(MaxEditChars) :
          /\ DifferInWindow(doc, e, cp.target)
          /\ doc2' = e
          /\ out2' = chunk_document(cp, e)
    /\ UNCHANGED <<doc, cp, out>>

\* what the second document goes on with: a byte that makes the rolling hash
\* zero, or a letter
Tails == {Flatten(cs) : cs \in SeqsUpTo({NUL, LetterB}, MaxTailChars)}

\* a second document that has the first n bytes of doc and then goes on
\* differently is chunked
ChunkSharedPrefix ==
    /\ out # NotRun
    /\ out2 = NotRun
    /\ \E n \in 0..Len(doc), tail \in Tails :
          /\ is_char_boundary(doc, n)
          /\ doc2' = SubSeq(doc, 1, n) \o tail
          /\ out2' = chunk_document(cp, SubSeq(doc, 1, n) \o tail)
    /\ UNCHANGED <<doc, cp, out>>

InitPrefix ==
    /\ CacheIdle /\ EmbedIdle /\ IngestIdle /\ LoaderIdle /\ ServeIdle /\ HashIdle /\ QueryIdle /\ MatchIdle /\ RegIdle /\ RenderIdle /\ GenIdle /\ SvcIdle /\ CosIdle /\ StateIdle
    /\ doc \in DocsOf(MaxPrefixChars)
    /\ cp \in ParamTriples
    /\ out = NotRun
    /\ doc2 = <<>>
    /\ out2 = NotRun

NextPrefix ==
    \/ ChunkDocument /\ UNCHANGED <<cacheVars, embedVars, ingestVars, loaderVars, serveVars, hashVars, queryVars, matchVars, regVars, renderVars, genVars, svcVars, cosVars, stateVars>>
    \/ ChunkSharedPrefix /\ UNCHANGED <<cacheVars, embedVars, ingestVars, loaderVars, serveVars, hashVars, queryVars, matchVars, regVars, renderVars, genVars, svcVars, cosVars, stateVars>>

SpecPrefix == InitPrefix /\ [][NextPrefix]_vars

NextChunk == ChunkDocument /\ UNCHANGED <<cacheVars, embedVars, ingestVars, loaderVars, serveVars, hashVars, queryVars, matchVars, regVars, renderVars, genVars, svcVars, cosVars, stateVars>>
NextEdit ==
    \/ ChunkDocument /\ UNCHANGED <<cacheVars, embedVars, ingestVars, loaderVars, serveVars, hashVars, queryVars, matchVars, regVars, renderVars, genVars, svcVars, cosVars, stateVars>>
    \/ EditAndChunk /\ UNCHANGED <<cacheVars, embedVars, ingestVars, loaderVars, serveVars, hashVars, queryVars, matchVars, regVars, renderVars, genVars, svcVars, cosVars, stateVars>>

\* Cache runs: one thread calls get_embedding and store_embedding, one call
\* after the other; the process may restart.
InitCache == CacheIdle /\ ChunkIdle /\ EmbedIdle /\ IngestIdle /\ LoaderIdle /\ ServeIdle /\ HashIdle /\ QueryIdle /\ MatchIdle /\ RegIdle /\ RenderIdle /\ GenIdle /\ SvcIdle /\ CosIdle /\ StateIdle
NextCache ==
    \/ \E t \in SeqThreads : StoreInsert(t) /\ UNCHANGED <<chunkVars, embedVars, ingestVars, loaderVars, serveVars, hashVars, queryVars, matchVars, regVars, renderVars, genVars, svcVars, cosVars, stateVars>>
    \/ \E t \in SeqThreads : StoreIoFails(t) /\ UNCHANGED <<chunkVars, embedVars, ingestVars, loaderVars, serveVars, hashVars, queryVars, matchVars, regVars, renderVars, genVars, svcVars, cosVars, stateVars>>
    \/ \E t \in SeqThreads : StoreCreate(t) /\ UNCHANGED <<chunkVars, embedVars, ingestVars, loaderVars, serveVars, hashVars, queryVars, matchVars, regVars, renderVars, genVars, svcVars, cosVars, stateVars>>
    \/ \E t \in SeqThreads : StoreWriteFails(t) /\ UNCHANGED <<chunkVars, embedVars, ingestVars, loaderVars, serveVars, hashVars, queryVars, matchVars, regVars, renderVars, genVars, svcVars, cosVars, stateVars>>
    \/ \E t \in SeqThreads : StoreWrite(t) /\ UNCHANGED <<chunkVars, embedVars, ingestVars, loaderVars, serveVars, hashVars, queryVars, matchVars, regVars, renderVars, genVars, svcVars, cosVars, stateVars>>
    \/ \E t \in SeqThreads : GetHit(t) /\ UNCHANGED <<chunkVars, embedVars, ingestVars, loaderVars, serveVars, hashVars, queryVars, matchVars, regVars, renderVars, genVars, svcVars, cosVars, stateVars>>
    \/ \E t \in SeqThreads : GetMiss(t) /\ UNCHANGED <<chunkVars, embedVars, ingestVars, loaderVars, serveVars, hashVars, queryVars, matchVars, regVars, renderVars, genVars, svcVars, cosVars, stateVars>>
    \/ \E t \in SeqThreads : GetIoFails(t) /\ UNCHANGED <<chunkVars, embedVars, ingestVars, loaderVars, serveVars, hashVars, queryVars, matchVars, regVars, renderVars, genVars, svcVars, cosVars, stateVars>>
    \/ \E t \in SeqThreads : GetNoFile(t) /\ UNCHANGED <<chunkVars, embedVars, ingestVars, loaderVars, serveVars, hashVars, queryVars, matchVars, regVars, renderVars, genVars, svcVars, cosVars, stateVars>>
    \/ \E t \in SeqThreads : GetDecodeFails(t) /\ UNCHANGED <<chunkVars, embedVars, ingestVars, loaderVars, serveVars, hashVars, queryVars, matchVars, regVars, renderVars, genVars, svcVars, cosVars, stateVars>>
    \/ \E t \in SeqThreads : GetDecode(t) /\ UNCHANGED <<chunkVars, embedVars, ingestVars, loaderVars, serveVars, hashVars, queryVars, matchVars, regVars, renderVars, genVars, svcVars, cosVars, stateVars>>
    \/ \E t \in SeqThreads : GetInsert(t) /\ UNCHANGED <<chunkVars, embedVars, ingestVars, loaderVars, serveVars, hashVars, queryVars, matchVars, regVars, renderVars, genVars, svcVars, cosVars, stateVars>>
    \/ Restart /\ UNCHANGED <<chunkVars, embedVars, ingestVars, loaderVars, serveVars, hashVars, queryVars, matchVars, regVars, renderVars, genVars, svcVars, cosVars, stateVars>>
SpecCache == InitCache /\ [][NextCache]_vars

\* Concurrent writers: two threads call store_embedding once each, their
\* steps interleave in any order (the write lock of lines 92-95 covers the
\* insert only).
NextStoreRace ==
    \/ \E t \in Threads : ret[t] = NoReturn /\ StoreInsert(t) /\ UNCHANGED <<chunkVars, embedVars, ingestVars, loaderVars, serveVars, hashVars, queryVars, matchVars, regVars, renderVars, genVars, svcVars, cosVars, stateVars>>
    \/ \E t \in Threads : StoreIoFails(t) /\ UNCHANGED <<chunkVars, embedVars, ingestVars, loaderVars, serveVars, hashVars, queryVars, matchVars, regVars, renderVars, genVars, svcVars, cosVars, stateVars>>
    \/ \E t \in Threads : StoreCreate(t) /\ UNCHANGED <<chunkVars, embedVars, ingestVars, loaderVars, serveVars, hashVars, queryVars, matchVars, regVars, renderVars, genVars, svcVars, cosVars, stateVars>>
    \/ \E t \in Threads : StoreWriteFails(t) /\ UNCHANGED <<chunkVars, embedVars, ingestVars, loaderVars, serveVars, hashVars, queryVars, matchVars, regVars, renderVars, genVars, svcVars, cosVars, stateVars>>
    \/ \E t \in Threads : StoreWrite(t) /\ UNCHANGED <<chunkVars, embedVars, ingestVars, loaderVars, serveVars, hashVars, queryVars, matchVars, regVars, renderVars, genVars, svcVars, cosVars, stateVars>>

SpecStoreRace == InitCache /\ [][NextStoreRace]_vars

\* A writer and a reader: the first thread calls store_embedding, the second
\* one get_embedding, again and again; their steps interleave in any order
\* (the locks of lines 51-56, 69-70 and 92-95 cover the map operations only).
NextCacheRace ==
    \/ \E t \in SeqThreads : StoreInsert(t) /\ UNCHANGED <<chunkVars, embedVars, ingestVars, loaderVars, serveVars, hashVars, queryVars, matchVars, regVars, renderVars, genVars, svcVars, cosVars, stateVars>>
    \/ \E t \in SeqThreads : StoreIoFails(t) /\ UNCHANGED <<chunkVars, embedVars, ingestVars, loaderVars, serveVars, hashVars, queryVars, matchVars, regVars, renderVars, genVars, svcVars, cosVars, stateVars>>
    \/ \E t \in SeqThreads : StoreCreate(t) /\ UNCHANGED <<chunkVars, embedVars, ingestVars, loaderVars, serveVars, hashVars, queryVars, matchVars, regVars, renderVars, genVars, svcVars, cosVars, stateVars>>
    \/ \E t \in SeqThreads : StoreWriteFails(t) /\ UNCHANGED <<chunkVars, embedVars, ingestVars, loaderVars, serveVars, hashVars, queryVars, matchVars, regVars, renderVars, genVars, svcVars, cosVars, stateVars>>
    \/ \E t \in SeqThreads : StoreWrite(t) /\ UNCHANGED <<chunkVars, embedVars, ingestVars, loaderVars, serveVars, hashVars, queryVars, matchVars, regVars, renderVars, genVars, svcVars, cosVars, stateVars>>
    \/ \E t \in Threads \ SeqThreads : GetHit(t) /\ UNCHANGED <<chunkVars, embedVars, ingestVars, loaderVars, serveVars, hashVars, queryVars, matchVars, regVars, renderVars, genVars, svcVars, cosVars, stateVars>>
    \/ \E t \in Threads \ SeqThreads : GetMiss(t) /\ UNCHANGED <<chunkVars, embedVars, ingestVars, loaderVars, serveVars, hashVars, queryVars, matchVars, regVars, renderVars, genVars, svcVars, cosVars, stateVars>>
    \/ \E t \in Threads \ SeqThreads : GetIoFails(t) /\ UNCHANGED <<chunkVars, embedVars, ingestVars, loaderVars, serveVars, hashVars, queryVars, matchVars, regVars, renderVars, genVars, svcVars, cosVars, stateVars>>
    \/ \E t \in Threads \ SeqThreads : GetNoFile(t) /\ UNCHANGED <<chunkVars, embedVars, ingestVars, loaderVars, serveVars, hashVars, queryVars, matchVars, regVars, renderVars, genVars, svcVars, cosVars, stateVars>>
    \/ \E t \in Threads \ SeqThreads : GetDecodeFails(t) /\ UNCHANGED <<chunkVars, embedVars, ingestVars, loaderVars, serveVars, hashVars, queryVars, matchVars, regVars, renderVars, genVars, svcVars, cosVars, stateVars>>
    \/ \E t \in Threads \ SeqThreads : GetDecode(t) /\ UNCHANGED <<chunkVars, embedVars, ingestVars, loaderVars, serveVars, hashVars, queryVars, matchVars, regVars, renderVars, genVars, svcVars, cosVars, stateVars>>
    \/ \E t \in Threads \ SeqThreads : GetInsert(t) /\ UNCHANGED <<chunkVars, embedVars, ingestVars, loaderVars, serveVars, hashVars, queryVars, matchVars, regVars, renderVars, genVars, svcVars, cosVars, stateVars>>

SpecCacheRace == InitCache /\ [][NextCacheRace]_vars

SpecChunk == InitChunk /\ [][NextChunk]_vars

\* Pipeline runs: generate_embeddings is called on a batch. The mixed
\* batches hold up to MaxBatch documents of any content; the uniform ones
\* hold more documents than CONCURRENCY_LIMIT, all alike.
BatchDocs == {Document(PathAt(k), c) : k \in 1..2, c \in DocContents}
MixedBatches == SeqsUpTo(BatchDocs, MaxBatch)
UniformBatches ==
    {[k \in 1..n |-> Document(PathAt(1), c)] :
        n \in (CONCURRENCY_LIMIT + 1)..(CONCURRENCY_LIMIT + MaxExtra), c \in DocContents}

InitEmbed ==
    /\ CacheIdle /\ ChunkIdle /\ IngestIdle /\ LoaderIdle /\ ServeIdle /\ HashIdle /\ QueryIdle /\ MatchIdle /\ RegIdle /\ RenderIdle /\ GenIdle /\ SvcIdle /\ CosIdle /\ StateIdle
    /\ need \in MixedBatches \cup UniformBatches
    /\ ipc = "embedding" /\ cname = "" /\ loaded = <<>> /\ emb = <<>>
    /\ gnext = 0 /\ inflight = {} /\ results = <<>> /\ gret = NotRun
    /\ sent = {} /\ sentAfterErr = FALSE

NextEmbed ==
    \/ GSkip /\ UNCHANGED <<chunkVars, cacheVars, ingestVars, loaderVars, serveVars, hashVars, queryVars, matchVars, regVars, renderVars, genVars, svcVars, cosVars, stateVars>>
    \/ GSend /\ UNCHANGED <<chunkVars, cacheVars, ingestVars, loaderVars, serveVars, hashVars, queryVars, matchVars, regVars, renderVars, genVars, svcVars, cosVars, stateVars>>
    \/ GRespond /\ UNCHANGED <<chunkVars, cacheVars, ingestVars, loaderVars, serveVars, hashVars, queryVars, matchVars, regVars, renderVars, genVars, svcVars, cosVars, stateVars>>
    \/ GReturn /\ UNCHANGED <<chunkVars, cacheVars, ingestVars, loaderVars, serveVars, hashVars, queryVars, matchVars, regVars, renderVars, genVars, svcVars, cosVars, stateVars>>

SpecEmbed == InitEmbed /\ [][NextEmbed]_vars

\* Ingestion runs: crates are loaded and added, one after the other, against
\* the cache the earlier ingestions left.
InitIngest == CacheIdle /\ ChunkIdle /\ EmbedIdle /\ IngestIdle /\ LoaderIdle /\ ServeIdle /\ HashIdle /\ QueryIdle /\ MatchIdle /\ RegIdle /\ RenderIdle /\ GenIdle /\ SvcIdle /\ CosIdle /\ StateIdle

NextIngest ==
    \/ IngestAllCached /\ UNCHANGED <<chunkVars, loaderVars, serveVars, hashVars, queryVars, matchVars, regVars, renderVars, genVars, svcVars, cosVars, stateVars>>
    \/ IngestBegin /\ UNCHANGED <<chunkVars, loaderVars, serveVars, hashVars, queryVars, matchVars, regVars, renderVars, genVars, svcVars, cosVars, stateVars>>
    \/ GSkip /\ UNCHANGED <<chunkVars, cacheVars, ingestVars, loaderVars, serveVars, hashVars, queryVars, matchVars, regVars, renderVars, genVars, svcVars, cosVars, stateVars>>
    \/ GSend /\ UNCHANGED <<chunkVars, cacheVars, ingestVars, loaderVars, serveVars, hashVars, queryVars, matchVars, regVars, renderVars, genVars, svcVars, cosVars, stateVars>>
    \/ GRespond /\ UNCHANGED <<chunkVars, cacheVars, ingestVars, loaderVars, serveVars, hashVars, queryVars, matchVars, regVars, renderVars, genVars, svcVars, cosVars, stateVars>>
    \/ GReturn /\ UNCHANGED <<chunkVars, cacheVars, ingestVars, loaderVars, serveVars, hashVars, queryVars, matchVars, regVars, renderVars, genVars, svcVars, cosVars, stateVars>>
    \/ IngestFails /\ UNCHANGED <<chunkVars, loaderVars, serveVars, hashVars, queryVars, matchVars, regVars, renderVars, genVars, svcVars, cosVars, stateVars>>
    \/ IngestStoreAndAdd /\ UNCHANGED <<chunkVars, loaderVars, serveVars, hashVars, queryVars, matchVars, regVars, renderVars, genVars, svcVars, cosVars, stateVars>>

SpecIngest == InitIngest /\ [][NextIngest]_vars
\* Ingestion after a change of EMBEDDING_MODEL: the cache directory holds the
\* files an earlier run of the server wrote while another model was
\* configured, one whose vectors have OtherDimension components.
Dimension == Len(EmbedOf[<<97>>])
OtherDimension == Len(Ramp(MaxDim))
EarlierRunFiles ==
    {d \in [Files -> {None, Some(StoredBytes(Ramp(MaxDim)))}] :
        \A h \in Keys : d[PathOf[h]] # None => \E c \in DocContents : HashOf[c] = h}

InitModelChange ==
    /\ ChunkIdle /\ EmbedIdle /\ IngestIdle /\ LoaderIdle /\ ServeIdle /\ HashIdle /\ QueryIdle /\ MatchIdle /\ RegIdle /\ RenderIdle /\ GenIdle /\ SvcIdle /\ CosIdle /\ StateIdle
    /\ mem = [h \in Keys |-> None]
    /\ disk \in EarlierRunFiles
    /\ pc = [t \in Threads |-> "idle"]
    /\ loc = [t \in Threads |-> NoLocals]
    /\ ret = [t \in Threads |-> NoReturn]
    /\ lastOk = [h \in Keys |-> None]
    /\ lastContent = [h \in Keys |-> None]
    /\ written = {}

SpecModelChange == InitModelChange /\ [][NextIngest]_vars

SpecEdit == InitEdit /\ [][NextEdit]_vars


\* Loader runs: process_html_documents is applied to a tree.
InitLoader ==
    /\ CacheIdle /\ ChunkIdle /\ EmbedIdle /\ IngestIdle /\ ServeIdle /\ HashIdle /\ QueryIdle /\ MatchIdle /\ RegIdle /\ RenderIdle /\ GenIdle /\ SvcIdle /\ CosIdle /\ StateIdle
    /\ tree \in Trees
    /\ lpc = "start" /\ kept = <<>> /\ returned = <<>>

NextLoader ==
    ProcessHtmlDocuments /\ UNCHANGED <<chunkVars, cacheVars, embedVars, ingestVars, serveVars, hashVars, queryVars, matchVars, regVars, renderVars, genVars, svcVars, cosVars, stateVars>>

SpecLoader == InitLoader /\ [][NextLoader]_vars

\* Render runs: load_documents is applied to a rendered output area.
InitRender ==
    /\ CacheIdle /\ ChunkIdle /\ EmbedIdle /\ IngestIdle /\ LoaderIdle /\ ServeIdle /\ HashIdle /\ QueryIdle /\ MatchIdle /\ RegIdle /\ GenIdle /\ SvcIdle /\ CosIdle /\ StateIdle
    /\ docdir \in DocDirs
    /\ dpc = "start" /\ dres = NoResult

NextRender ==
    \/ LoadDocumentsRenderFails /\ UNCHANGED <<chunkVars, cacheVars, embedVars, ingestVars, serveVars, hashVars, queryVars, matchVars, regVars, genVars, svcVars, cosVars, stateVars>>
    \/ LoadDocumentsIoFails /\ UNCHANGED <<chunkVars, cacheVars, embedVars, ingestVars, serveVars, hashVars, queryVars, matchVars, regVars, genVars, svcVars, cosVars, stateVars>>
    \/ LoadDocumentsNotOne /\ UNCHANGED <<chunkVars, cacheVars, embedVars, ingestVars, serveVars, hashVars, queryVars, matchVars, regVars, genVars, svcVars, cosVars, stateVars>>
    \/ LoadDocumentsOne /\ UNCHANGED <<chunkVars, cacheVars, embedVars, ingestVars, serveVars, hashVars, queryVars, matchVars, regVars, genVars, svcVars, cosVars, stateVars>>

SpecRender == InitRender /\ [][NextRender]_vars

\* Generator runs: generate_mcp_config is applied to a manifest.
InitGen ==
    /\ CacheIdle /\ ChunkIdle /\ EmbedIdle /\ IngestIdle /\ LoaderIdle /\ ServeIdle /\ HashIdle /\ QueryIdle /\ MatchIdle /\ RegIdle /\ RenderIdle /\ SvcIdle /\ CosIdle /\ StateIdle
    /\ cargo_toml \in Manifests
    /\ config_style \in {"ClaudeDesktop", "Roo"}
    /\ gpc = "start" /\ mcp_config = {}

NextGen ==
    GenerateMcpConfig /\ UNCHANGED <<chunkVars, cacheVars, embedVars, ingestVars, loaderVars, serveVars, hashVars, queryVars, matchVars, regVars, renderVars, svcVars, cosVars, stateVars>>

SpecGen == InitGen /\ [][NextGen]_vars

\* Chunk cache runs: get_embedding_for_chunk is called again and again, one
\* call after the other, on a cache directory an earlier run left behind.
InitSvc ==
    /\ CacheIdle /\ ChunkIdle /\ EmbedIdle /\ IngestIdle /\ LoaderIdle /\ ServeIdle /\ HashIdle /\ QueryIdle /\ MatchIdle /\ RegIdle /\ RenderIdle /\ GenIdle /\ CosIdle /\ StateIdle
    /\ cache_dir \in [CachePaths -> LeftBehind]
    /\ epc = "idle" /\ ecall = NoCall
    /\ served = [c \in ChunkContents |-> None]

NextSvc ==
    \/ CallCached /\ UNCHANGED <<chunkVars, cacheVars, embedVars, ingestVars, loaderVars, serveVars, hashVars, queryVars, matchVars, regVars, renderVars, genVars, cosVars, stateVars>>
    \/ CallReadFails /\ UNCHANGED <<chunkVars, cacheVars, embedVars, ingestVars, loaderVars, serveVars, hashVars, queryVars, matchVars, regVars, renderVars, genVars, cosVars, stateVars>>
    \/ CallRequests /\ UNCHANGED <<chunkVars, cacheVars, embedVars, ingestVars, loaderVars, serveVars, hashVars, queryVars, matchVars, regVars, renderVars, genVars, cosVars, stateVars>>
    \/ RequestFails /\ UNCHANGED <<chunkVars, cacheVars, embedVars, ingestVars, loaderVars, serveVars, hashVars, queryVars, matchVars, regVars, renderVars, genVars, cosVars, stateVars>>
    \/ RequestDone /\ UNCHANGED <<chunkVars, cacheVars, embedVars, ingestVars, loaderVars, serveVars, hashVars, queryVars, matchVars, regVars, renderVars, genVars, cosVars, stateVars>>
    \/ RequestDoneWriteFails /\ UNCHANGED <<chunkVars, cacheVars, embedVars, ingestVars, loaderVars, serveVars, hashVars, queryVars, matchVars, regVars, renderVars, genVars, cosVars, stateVars>>

SpecSvc == InitSvc /\ [][NextSvc]_vars

\* Cosine runs: cosine_similarity is applied to every pair of vectors of one
\* length, up to MaxDim components each.
InitCos ==
    /\ CacheIdle /\ ChunkIdle /\ EmbedIdle /\ IngestIdle /\ LoaderIdle /\ ServeIdle /\ HashIdle /\ QueryIdle /\ MatchIdle /\ RegIdle /\ RenderIdle /\ GenIdle /\ SvcIdle /\ StateIdle
    /\ v1 \in F32Vectors /\ v2 \in F32Vectors /\ Len(v1) = Len(v2)
    /\ similarity = None

NextCos ==
    \/ CosineSimilarity /\ UNCHANGED <<chunkVars, cacheVars, embedVars, ingestVars, loaderVars, serveVars, hashVars, queryVars, matchVars, regVars, renderVars, genVars, svcVars, stateVars>>

SpecCos == InitCos /\ [][NextCos]_vars

\* Constructor runs: RustDocsServer::new is called up to MaxNew times, and
\* add_crate through other handles at any moment, also between two steps of
\* new.
InitNew == CacheIdle /\ ChunkIdle /\ EmbedIdle /\ IngestIdle /\ LoaderIdle /\ ServeIdle /\ HashIdle /\ QueryIdle /\ MatchIdle /\ RegIdle /\ RenderIdle /\ GenIdle /\ SvcIdle /\ CosIdle /\ StateIdle

NextNew ==
    \/ NewConfigure /\ UNCHANGED <<chunkVars, cacheVars, embedVars, storeLog, loaderVars, serveVars, hashVars, queryVars, matchVars, renderVars, genVars, svcVars, cosVars>>
    \/ NewClear /\ UNCHANGED <<chunkVars, cacheVars, embedVars, storeLog, loaderVars, serveVars, hashVars, queryVars, matchVars, renderVars, genVars, svcVars, cosVars>>
    \/ NewResetPeer /\ UNCHANGED <<chunkVars, cacheVars, embedVars, storeLog, loaderVars, serveVars, hashVars, queryVars, matchVars, renderVars, genVars, svcVars, cosVars>>
    \/ NewDiscover /\ UNCHANGED <<chunkVars, cacheVars, embedVars, storeLog, loaderVars, serveVars, hashVars, queryVars, matchVars, renderVars, genVars, svcVars, cosVars>>
    \/ \E w \in Writers : AddCrateBuildAny(w) /\ UNCHANGED <<chunkVars, cacheVars, embedVars, storeLog, loaderVars, serveVars, hashVars, queryVars, matchVars, renderVars, genVars, svcVars, cosVars>>
    \/ \E w \in Writers : AddCrateInsertAny(w) /\ UNCHANGED <<chunkVars, cacheVars, embedVars, storeLog, loaderVars, serveVars, hashVars, queryVars, matchVars, renderVars, genVars, svcVars, cosVars>>

SpecNew == InitNew /\ [][NextNew]_vars

\* Lazy runs: after new has returned, with any setting of lazy loading and
\* any set of available crates, query_rust_docs is called by concurrent
\* requests, once each.
InitLazy ==
    /\ CacheIdle /\ ChunkIdle /\ EmbedIdle /\ IngestIdle /\ LoaderIdle /\ ServeIdle /\ HashIdle /\ QueryIdle /\ MatchIdle /\ RegIdle /\ RenderIdle /\ GenIdle /\ SvcIdle /\ CosIdle
    /\ enable_lazy_loading \in BOOLEAN
    /\ avail_crates \in SUBSET RegistryNames
    /\ ~enable_lazy_loading => avail_crates = {}
    /\ server_peer = None
    /\ npc = [step |-> "returned", enable_lazy_loading |-> enable_lazy_loading, calls |-> 1,
              before |-> {}]
    /\ fresh = {}
    /\ qtask = [q \in Queries |-> NoQuery]
    /\ loads = [n \in RegistryNames |-> 0]

NextLazy ==
    \/ \E q \in Queries : QueryLoaded(q) /\ UNCHANGED <<chunkVars, cacheVars, embedVars, storeLog, loaderVars, serveVars, hashVars, queryVars, matchVars, renderVars, genVars, svcVars, cosVars>>
    \/ \E q \in Queries : QueryNotLazy(q) /\ UNCHANGED <<chunkVars, cacheVars, embedVars, storeLog, loaderVars, serveVars, hashVars, queryVars, matchVars, renderVars, genVars, svcVars, cosVars>>
    \/ \E q \in Queries : QueryNotAvailable(q) /\ UNCHANGED <<chunkVars, cacheVars, embedVars, storeLog, loaderVars, serveVars, hashVars, queryVars, matchVars, renderVars, genVars, svcVars, cosVars>>
    \/ \E q \in Queries : QueryLoadBegin(q) /\ UNCHANGED <<chunkVars, cacheVars, embedVars, storeLog, loaderVars, serveVars, hashVars, queryVars, matchVars, renderVars, genVars, svcVars, cosVars>>
    \/ \E q \in Queries : QueryLoadFails(q) /\ UNCHANGED <<chunkVars, cacheVars, embedVars, storeLog, loaderVars, serveVars, hashVars, queryVars, matchVars, renderVars, genVars, svcVars, cosVars>>
    \/ \E q \in Queries : QueryLoadInsert(q) /\ UNCHANGED <<chunkVars, cacheVars, embedVars, storeLog, loaderVars, serveVars, hashVars, queryVars, matchVars, renderVars, genVars, svcVars, cosVars>>

SpecLazy == InitLazy /\ [][NextLazy]_vars

\* Server runs: requests are handled by concurrent tasks, each send_log
\* spawns a task, the runtime schedules the tasks in any order.
InitServe == CacheIdle /\ ChunkIdle /\ EmbedIdle /\ IngestIdle /\ LoaderIdle /\ ServeIdle /\ HashIdle /\ QueryIdle /\ MatchIdle /\ RegIdle /\ RenderIdle /\ GenIdle /\ SvcIdle /\ CosIdle /\ StateIdle

NextServe ==
    \/ SetPeerStartup /\ UNCHANGED <<chunkVars, cacheVars, embedVars, ingestVars, loaderVars, hashVars, queryVars, matchVars, regVars, renderVars, genVars, svcVars, cosVars, stateVars>>
    \/ SetPeerStartupFails /\ UNCHANGED <<chunkVars, cacheVars, embedVars, ingestVars, loaderVars, hashVars, queryVars, matchVars, regVars, renderVars, genVars, svcVars, cosVars, stateVars>>
    \/ SetPeer /\ UNCHANGED <<chunkVars, cacheVars, embedVars, ingestVars, loaderVars, hashVars, queryVars, matchVars, regVars, renderVars, genVars, svcVars, cosVars, stateVars>>
    \/ \E h \in Handlers : HandlePing(h) /\ UNCHANGED <<chunkVars, cacheVars, embedVars, ingestVars, loaderVars, hashVars, queryVars, matchVars, regVars, renderVars, genVars, svcVars, cosVars, stateVars>>
    \/ \E h \in Handlers : HandlerLock(h) /\ UNCHANGED <<chunkVars, cacheVars, embedVars, ingestVars, loaderVars, hashVars, queryVars, matchVars, regVars, renderVars, genVars, svcVars, cosVars, stateVars>>
    \/ \E h \in Handlers : HandlerWrongCrate(h) /\ UNCHANGED <<chunkVars, cacheVars, embedVars, ingestVars, loaderVars, hashVars, queryVars, matchVars, regVars, renderVars, genVars, svcVars, cosVars, stateVars>>
    \/ \E h \in Handlers : HandlerEmbed(h) /\ UNCHANGED <<chunkVars, cacheVars, embedVars, ingestVars, loaderVars, hashVars, queryVars, matchVars, regVars, renderVars, genVars, svcVars, cosVars, stateVars>>
    \/ \E h \in Handlers : HandlerEmbedFails(h) /\ UNCHANGED <<chunkVars, cacheVars, embedVars, ingestVars, loaderVars, hashVars, queryVars, matchVars, regVars, renderVars, genVars, svcVars, cosVars, stateVars>>
    \/ \E h \in Handlers : HandlerNoContext(h) /\ UNCHANGED <<chunkVars, cacheVars, embedVars, ingestVars, loaderVars, hashVars, queryVars, matchVars, regVars, renderVars, genVars, svcVars, cosVars, stateVars>>
    \/ \E h \in Handlers : HandlerChat(h) /\ UNCHANGED <<chunkVars, cacheVars, embedVars, ingestVars, loaderVars, hashVars, queryVars, matchVars, regVars, renderVars, genVars, svcVars, cosVars, stateVars>>
    \/ \E h \in Handlers : HandlerChatDone(h) /\ UNCHANGED <<chunkVars, cacheVars, embedVars, ingestVars, loaderVars, hashVars, queryVars, matchVars, regVars, renderVars, genVars, svcVars, cosVars, stateVars>>
    \/ \E m \in 1..Len(logpc) : LogNoPeer(m) /\ UNCHANGED <<chunkVars, cacheVars, embedVars, ingestVars, loaderVars, hashVars, queryVars, matchVars, regVars, renderVars, genVars, svcVars, cosVars, stateVars>>
    \/ \E m \in 1..Len(logpc) : LogLock(m) /\ UNCHANGED <<chunkVars, cacheVars, embedVars, ingestVars, loaderVars, hashVars, queryVars, matchVars, regVars, renderVars, genVars, svcVars, cosVars, stateVars>>
    \/ \E m \in 1..Len(logpc) : LogSent(m) /\ UNCHANGED <<chunkVars, cacheVars, embedVars, ingestVars, loaderVars, hashVars, queryVars, matchVars, regVars, renderVars, genVars, svcVars, cosVars, stateVars>>
    \/ \E m \in 1..Len(logpc) : LogSendFails(m) /\ UNCHANGED <<chunkVars, cacheVars, embedVars, ingestVars, loaderVars, hashVars, queryVars, matchVars, regVars, renderVars, genVars, svcVars, cosVars, stateVars>>

SpecServe == InitServe /\ [][NextServe]_vars

\* Hashing runs: compute_content_hash and normalize_content applied to every
\* string of up to MaxText bytes over TextBytes.
InitHash ==
    /\ CacheIdle /\ ChunkIdle /\ EmbedIdle /\ IngestIdle /\ LoaderIdle /\ ServeIdle /\ QueryIdle /\ MatchIdle /\ RegIdle /\ RenderIdle /\ GenIdle /\ SvcIdle /\ CosIdle /\ StateIdle
    /\ hx \in Texts
    /\ hres = [kind |-> "notrun"]

NextHash ==
    ComputeContentHash /\ UNCHANGED <<chunkVars, cacheVars, embedVars, ingestVars, loaderVars, serveVars, queryVars, matchVars, regVars, renderVars, genVars, svcVars, cosVars, stateVars>>

SpecHash == InitHash /\ [][NextHash]_vars

\* Query runs: a server state built from any documents and embeddings,
\* CallToolRequests handled one after the other.
InitQuery ==
    /\ CacheIdle /\ ChunkIdle /\ EmbedIdle /\ IngestIdle /\ LoaderIdle /\ ServeIdle /\ HashIdle /\ MatchIdle /\ RegIdle /\ RenderIdle /\ GenIdle /\ SvcIdle /\ CosIdle /\ StateIdle
    /\ qstate \in QueryStates
    /\ qpc = "idle" /\ qreq = None /\ qbest = None /\ qcalls = <<>>
    /\ qresp = NoResponse

NextQuery ==
    \/ QueryWrongCrate /\ UNCHANGED <<chunkVars, cacheVars, embedVars, ingestVars, loaderVars, serveVars, hashVars, matchVars, regVars, renderVars, genVars, svcVars, cosVars, stateVars>>
    \/ QueryEmbed /\ UNCHANGED <<chunkVars, cacheVars, embedVars, ingestVars, loaderVars, serveVars, hashVars, matchVars, regVars, renderVars, genVars, svcVars, cosVars, stateVars>>
    \/ QueryEmbedFails /\ UNCHANGED <<chunkVars, cacheVars, embedVars, ingestVars, loaderVars, serveVars, hashVars, matchVars, regVars, renderVars, genVars, svcVars, cosVars, stateVars>>
    \/ QueryNoEmbeddings /\ UNCHANGED <<chunkVars, cacheVars, embedVars, ingestVars, loaderVars, serveVars, hashVars, matchVars, regVars, renderVars, genVars, svcVars, cosVars, stateVars>>
    \/ QueryNoDocument /\ UNCHANGED <<chunkVars, cacheVars, embedVars, ingestVars, loaderVars, serveVars, hashVars, matchVars, regVars, renderVars, genVars, svcVars, cosVars, stateVars>>
    \/ QueryChat /\ UNCHANGED <<chunkVars, cacheVars, embedVars, ingestVars, loaderVars, serveVars, hashVars, matchVars, regVars, renderVars, genVars, svcVars, cosVars, stateVars>>
    \/ QueryChatFails /\ UNCHANGED <<chunkVars, cacheVars, embedVars, ingestVars, loaderVars, serveVars, hashVars, matchVars, regVars, renderVars, genVars, svcVars, cosVars, stateVars>>
    \/ QueryChatDone /\ UNCHANGED <<chunkVars, cacheVars, embedVars, ingestVars, loaderVars, serveVars, hashVars, matchVars, regVars, renderVars, genVars, svcVars, cosVars, stateVars>>

SpecQuery == InitQuery /\ [][NextQuery]_vars

\* Matching runs: find_matching_crate_names applied to a name and a list of
\* available crates.
InitMatch ==
    /\ CacheIdle /\ ChunkIdle /\ EmbedIdle /\ IngestIdle /\ LoaderIdle /\ ServeIdle /\ HashIdle /\ QueryIdle /\ RegIdle /\ RenderIdle /\ GenIdle /\ SvcIdle /\ CosIdle /\ StateIdle
    /\ mq \in Names \cup {<<>>}
    /\ mavail \in AvailableLists
    /\ mres = [kind |-> "notrun"]

NextMatch ==
    FindMatchingCrateNames /\ UNCHANGED <<chunkVars, cacheVars, embedVars, ingestVars, loaderVars, serveVars, hashVars, queryVars, regVars, renderVars, genVars, svcVars, cosVars, stateVars>>

SpecMatch == InitMatch /\ [][NextMatch]_vars

\* -------------------------------------------------------------------------
\* Matching properties
\* -------------------------------------------------------------------------
RECURSIVE CommonPrefixLen(_, _)
CommonPrefixLen(a, b) ==
    IF a = <<>> \/ b = <<>> \/ Head(a) # Head(b) THEN 0
    ELSE 1 + CommonPrefixLen(Tail(a), Tail(b))

Returned_(c) == \E k \in 1..Len(mres.similar) : mres.similar[k] = c

\* C24: every available name that shares a prefix of 3 characters or more
\* with the queried name is in the list returned.
C24_SimilarHasSharedPrefix ==
    mres.kind = "done" =>
        \A i \in 1..Len(mavail) :
            CommonPrefixLen(mq, mavail[i]) >= 3 => Returned_(mavail[i])

\* C25: whether a candidate is returned does not change when its hyphens
\* are written as underscores or its underscores as hyphens, nor when that
\* is done to the queried name.
C25_HyphenUnderscoreEquivalent ==
    mres.kind = "done" =>
        \A i \in 1..Len(mavail) :
            LET c == mavail[i]
                Same(q2, c2) == Returned_(c) <=> Matches(q2, c2)
            IN  /\ Same(replace(mq, Hyphen, Underscore), c)
                /\ Same(replace(mq, Underscore, Hyphen), c)
                /\ Same(mq, replace(c, Hyphen, Underscore))
                /\ Same(mq, replace(c, Underscore, Hyphen))

\* Registry runs: add_crate calls, snapshots, list_resources and
\* read_resource by concurrent tasks.
InitRegistry ==
    /\ CacheIdle /\ ChunkIdle /\ EmbedIdle /\ IngestIdle /\ LoaderIdle /\ ServeIdle /\ HashIdle /\ QueryIdle /\ MatchIdle /\ RenderIdle /\ GenIdle /\ SvcIdle /\ CosIdle /\ StateIdle
    /\ RegIdle

NextRegistry ==
    \/ \E w \in Writers : AddCrateBuild(w) /\ UNCHANGED <<chunkVars, cacheVars, embedVars, storeLog, loaderVars, serveVars, hashVars, queryVars, matchVars, renderVars, genVars, svcVars, cosVars, stateVars>>
    \/ \E w \in Writers : AddCrateInsert(w) /\ UNCHANGED <<chunkVars, cacheVars, embedVars, storeLog, loaderVars, serveVars, hashVars, queryVars, matchVars, renderVars, genVars, svcVars, cosVars, stateVars>>
    \/ \E r \in Readers : Snapshot(r) /\ UNCHANGED <<chunkVars, cacheVars, embedVars, storeLog, loaderVars, serveVars, hashVars, queryVars, matchVars, renderVars, genVars, svcVars, cosVars, stateVars>>
    \/ ListResources /\ UNCHANGED <<chunkVars, cacheVars, embedVars, storeLog, loaderVars, serveVars, hashVars, queryVars, matchVars, renderVars, genVars, svcVars, cosVars, stateVars>>
    \/ ReadResource /\ UNCHANGED <<chunkVars, cacheVars, embedVars, storeLog, loaderVars, serveVars, hashVars, queryVars, matchVars, renderVars, genVars, svcVars, cosVars, stateVars>>
    \/ ResourceReturn /\ UNCHANGED <<chunkVars, cacheVars, embedVars, storeLog, loaderVars, serveVars, hashVars, queryVars, matchVars, renderVars, genVars, svcVars, cosVars, stateVars>>

SpecRegistry == InitRegistry /\ [][NextRegistry]_vars

\* -------------------------------------------------------------------------
\* Registry properties
\* -------------------------------------------------------------------------
\* C27: a snapshot is the entry as it was when it was taken, it is the
\* (documents, embeddings) pair of one ingestion, and it does not change
\* afterwards, whatever add_crate does to the entry.
C27_AtomicReplace ==
    [][\A r \in Readers :
          /\ snap'[r] # None =>
                \E k \in 1..MaxIngest : snap'[r][1].data = IngestionData(k)
          /\ snap'[r] # snap[r] =>
                /\ snap'[r] # None
                /\ snap'[r][1].data \in {crates[snap'[r][1].crate_name][1],
                                         crates'[snap'[r][1].crate_name][1]}
          /\ crates' # crates => snap'[r] = snap[r]]_vars

\* C27 witness: a reader holds the entry of the first ingestion while the
\* registry holds the entry of the second.
C27_Witness ==
    /\ snap[1] # None
    /\ snap[1][1].crate_name = "serde"
    /\ snap[1][1].data = IngestionData(1)
    /\ crates["serde"] = Some(IngestionData(2))

Loaded == {n \in RegistryNames : crates[n] # None}

\* C28: list_resources returns one resource crate://<name> per crate loaded
\* at the time of the call and nothing else; read_resource succeeds exactly
\* for the URIs crate://<name> of the crates loaded at the time of the call.
C28_ResourcesMatchRegistry ==
    [][rres.op = "none" =>
         /\ rres'.op = "list" =>
               /\ {rres'.resources[i].uri : i \in 1..Len(rres'.resources)}
                      = {CrateUri(n) : n \in Loaded}
               /\ Len(rres'.resources) = Cardinality(Loaded)
         /\ rres'.op = "read" =>
               (rres'.ok <=> \E n \in Loaded : rres'.uri = CrateUri(n))]_vars

\* C28 witness: with one crate loaded and one not, read_resource was
\* refused for the URI of the crate that is not loaded.
C28_Witness ==
    /\ Loaded = {"serde"}
    /\ rres.op = "read"
    /\ rres.uri = CrateUri("tokio")
    /\ ~rres.ok

\* -------------------------------------------------------------------------
\* Hash properties
\* -------------------------------------------------------------------------
\* a string is in normal form: no empty line, no line that begins or ends
\* with whitespace, no newline at its end
Normalised(s) ==
    /\ s = Join(lines(s), <<10>>)
    /\ \A k \in 1..Len(lines(s)) :
          LET l == lines(s)[k]
          IN  l # <<>> /\ ~IsWhitespace(l[1]) /\ ~IsWhitespace(l[Len(l)])

\* C18: compute_content_hash(x) = compute_content_hash(normalize_content(x)),
\* normalize_content(normalize_content(x)) = normalize_content(x), and the
\* normalised string has its lines trimmed, no empty line, and single
\* newlines between the lines.
C18_HashStableUnderNormalisation ==
    hres.kind = "done" =>
        /\ hres.hash = compute_content_hash(hres.normalized)
        /\ normalize_content(hres.normalized) = hres.normalized
        /\ Normalised(hres.normalized)

\* C18 witness: a string that normalisation changes into a non-empty one was
\* hashed.
C18_Witness ==
    /\ hres.kind = "done"
    /\ hres.normalized # hx
    /\ hres.normalized # <<>>

\* -------------------------------------------------------------------------
\* Server properties
\* -------------------------------------------------------------------------
\* C22: a query whose best-scoring path has no Document is answered with an
\* error response and without a chat-completion call.
C22_ContextMissingIsError ==
    ( /\ qpc = "idle"
      /\ qbest # None
      /\ context_doc(qstate.documents, qbest[1]) = None )
        => /\ qresp.kind = "Err"
           /\ \A i \in 1..Len(qcalls) : qcalls[i] # "chat"

\* C26: the startup announcement is delivered exactly once, before every
\* other log notification, and exactly when a tool call has succeeded.
C26_StartupOneShot ==
    LET announced == {i \in 1..Len(delivered) : delivered[i] = Startup}
    IN  /\ Cardinality(announced) <= 1
        /\ announced # {} => delivered[1] = Startup
        /\ toolOk <=> announced # {}

\* C23: a query for a crate that is not the one loaded is answered with an
\* error, makes no OpenAI call and leaves the server state as it was.
C23_UnknownPackage ==
    [][(qpc = "idle" /\ qreq' # None /\ qreq'[1] # qstate.crate_name)
          => /\ qresp'.kind = "Err"
             /\ qcalls' = <<>>
             /\ qpc' = "idle"
             /\ qstate' = qstate]_vars

\* C23 witness: a query for "tokio" was answered by a server that holds
\* documents and embeddings of "serde".
C23_Witness ==
    /\ qreq = Some("tokio")
    /\ qresp = McpErrorData("INVALID_PARAMS")
    /\ qstate.documents # <<>>
    /\ qstate.embeddings # <<>>

\* C15: a task that awaits a notification send, an embedding request or a
\* chat request holds neither the state mutex nor the peer mutex.
C15_NoLockAcrossAwait ==
    /\ \A h \in Handlers : hpc[h] \in {"await_embed", "await_chat"} => stateLock # h
    /\ \A m \in 1..Len(logpc) : logpc[m] = "await_send" => peerLock # m

DocSet(docs) == {docs[i] : i \in 1..Len(docs)}
FileSet(files) == {files[i] : i \in 1..Len(files)}
Eligible(f) == f.base \notin {IndexName, NonUtf8Name} /\ ~HasSrcComponent(f)

\* C11: no returned Document has a path with a component "src".
C11_NoSrcComponent ==
    \A d \in DocSet(returned) : \A i \in 1..Len(d.path) : d.path[i] # "src"

\* C12: the returned Documents have pairwise distinct paths.
C12_DistinctPaths ==
    \A i, j \in 1..Len(returned) : returned[i].path = returned[j].path => i = j

\* C12 witness: a tree with two index.html and two page.html gave the
\* Document of the root index.html and one page.html Document.
C12_Witness ==
    /\ lpc = "done"
    /\ Len(tree) >= 3
    /\ Cardinality({i \in 1..Len(tree) : tree[i].base = PageName}) >= 2
    /\ {d.path : d \in DocSet(returned)} = {<<IndexName>>, <<"de", PageName>>}

\* C13: when at least two eligible files share a basename (and fs::metadata
\* works on every file of that basename), exactly one file of that basename
\* is kept, it is an eligible one, and no eligible one is longer.
C13_KeepsOneLargest ==
    lpc = "done" =>
        \A b \in {tree[i].base : i \in 1..Len(tree)} :
            LET same == {f \in FileSet(tree) : f.base = b}
                eligible == {f \in same : Eligible(f)}
                keptOfB == {f \in FileSet(kept) : f.base = b}
            IN  (Cardinality(eligible) >= 2 /\ \A f \in same : f.fault # "metadata")
                  => /\ Cardinality(keptOfB) = 1
                     /\ \A k \in keptOfB :
                           k \in eligible /\ \A f \in eligible : f.size <= k.size

\* what process_html_documents returns for a tree, as a set
ResultOf(t) ==
    LET groups == basename_groups(t)
        order == CHOOSE o \in Orders(DOMAIN groups) : TRUE
    IN  DocSet(ExtractLoop(FilterLoop(groups, order, RootIndex(t)), <<>>))

Without(t, k) == SubSeq(t, 1, k - 1) \o SubSeq(t, k + 1, Len(t))
Bad(f) == f.fault # "none" \/ f.base = NonUtf8Name

\* C14: for every file a step fails on, every Document that would be
\* returned for the tree without that file is returned.
C14_FailureSkipsOnlyThatFile ==
    lpc = "done" =>
        \A k \in 1..Len(tree) :
            Bad(tree[k]) => ResultOf(Without(tree, k)) \subseteq DocSet(returned)

\* -------------------------------------------------------------------------
\* Pipeline and ingestion properties
\* -------------------------------------------------------------------------
\* C6: every vector the ingestion stored in the cache is stored under the
\* content of the document it was computed from.
C6_StoredUnderOwnContent ==
    \A st \in storeLog : st.vector = EmbedOf[st.content]

\* C7: in every crate of the registry, the path of every embedding is the
\* path of a document of the same crate.
C7_EmbeddingPathsAreDocumentPaths ==
    \A name \in CrateNames :
        crates[name] # None =>
            LET data == crates[name][1]
            IN  \A i \in 1..Len(data.embeddings) :
                    \E j \in 1..Len(data.documents) :
                        data.documents[j].path = data.embeddings[i].path

\* C7 witness: a crate was added whose embeddings are one reused from the
\* cache followed by one newly generated.
C7_Witness ==
    /\ ipc = "idle"
    /\ gret.kind = "ok"
    /\ Len(emb) = 1 /\ Len(gret.pairs) = 1
    /\ crates[cname] = Some(CrateData(loaded, need, emb \o gret.pairs))

\* C8: once a failed request has been collected, no further request is
\* issued, and a batch with a failed request returns Err (so no pairs).
C8_FailFast ==
    /\ ~sentAfterErr
    /\ (ipc = "returned" /\ \E k \in 1..Len(results) : results[k] = Failed)
          => gret.kind = "err"

\* C9: at most CONCURRENCY_LIMIT requests await their response at any time.
C9_AtMostEightInFlight == Cardinality(inflight) <= CONCURRENCY_LIMIT

\* C9 witness: eight requests are in flight while the batch still has a
\* document that was not started.
C9_Witness ==
    /\ Cardinality(inflight) = CONCURRENCY_LIMIT
    /\ StreamLeft

RECURSIVE SumTokens(_)
SumTokens(S) ==
    IF S = {} THEN 0
    ELSE LET i == CHOOSE x \in S : TRUE
         IN  TokenCount[need[i].content] + SumTokens(S \ {i})

\* C10: a request is issued for a document exactly when the document has at
\* most TOKEN_LIMIT tokens; when generate_embeddings returns Ok, the pairs
\* are those of the documents sent, one each, and the total is the sum of
\* their token counts (a document over the limit adds no pair and 0 tokens).
C10_TokenGate ==
    /\ \A i \in 1..gnext :
          i \in sent <=> TokenCount[need[i].content] <= TOKEN_LIMIT
    /\ (ipc = "returned" /\ gret.kind = "ok") =>
          /\ Len(gret.pairs) = Cardinality(sent)
          /\ \A i \in sent : \E k \in 1..Len(gret.pairs) :
                gret.pairs[k] = [path |-> need[i].path, vector |-> EmbedOf[need[i].content]]
          /\ gret.total = SumTokens(sent)

\* C10 witness: a batch with a document of exactly TOKEN_LIMIT tokens and
\* one of TOKEN_LIMIT + 1 returned Ok with the pair of the first only.
C10_Witness ==
    /\ ipc = "returned" /\ gret.kind = "ok"
    /\ Len(need) = 2
    /\ \E i, j \in 1..2 : /\ TokenCount[need[i].content] = TOKEN_LIMIT
                           /\ TokenCount[need[j].content] = TOKEN_LIMIT + 1
    /\ Len(gret.pairs) = 1
    /\ gret.total = TOKEN_LIMIT

C17_ConcurrentWritersBenign ==
    ( /\ \A t \in Threads : pc[t] = "idle" /\ ret[t].op = "store" /\ ret[t].result = "Ok"
      /\ ret[1].hash = ret[2].hash )
        => /\ mem[ret[1].hash] # None
           /\ disk[PathOf[ret[1].hash]] # None
           /\ decode(disk[PathOf[ret[1].hash]][1]) = mem[ret[1].hash]

C20_GetNeverFails ==
    [][\A t \in Threads :
          (pc[t] = "get_disk" /\ pc'[t] = "idle" /\ ret'[t].op = "get")
              => (ret'[t].result = None /\ mem' = mem)]_vars

\* C20 witness: a get_embedding found a file that does not decode and
\* returned None while the map holds another key.
C20_Witness ==
    /\ ret[1].op = "get"
    /\ ~ret[1].ioError
    /\ ret[1].result = None
    /\ disk[PathOf[ret[1].hash]] # None
    /\ decode(disk[PathOf[ret[1].hash]][1]) = None
    /\ \E h \in Keys : mem[h] # None

\* C21: no step deletes a cache file; within a process no step removes a
\* key from the in-memory map; a get_embedding that returns Some leaves its
\* key in the map, and a get_embedding on a key of the map returns Some.
C21_NeverInvalidated ==
    [][/\ \A f \in Files : disk[f] # None => disk'[f] # None
       /\ Restart \/ \A h \in Keys : mem[h] # None => mem'[h] # None
       /\ \A t \in Threads :
             (ret'[t] # ret[t] /\ ret'[t].op = "get")
                 => /\ ret'[t].result # None => mem'[ret'[t].hash] # None
                    /\ mem[ret'[t].hash] # None => ret'[t].result # None]_vars

\* C21 witness: get_embedding returned Some for a key whose latest
\* store_embedding failed.
C21_Witness ==
    /\ ret[1].op = "get"
    /\ ret[1].result # None
    /\ lastOk[ret[1].hash] = None
    /\ disk[PathOf[ret[1].hash]] # None

\* C2, at the states where no call is in progress (the claim also covers the
\* states inside store_embedding): every key that store_embedding put into
\* the in-memory map has a file in the cache directory.
C2_WriteThrough ==
    (\A t \in Threads : pc[t] = "idle")
        => \A h \in written : mem[h] # None => disk[PathOf[h]] # None

\* -------------------------------------------------------------------------
\* Chunker properties
\* -------------------------------------------------------------------------
Contents(chunks) == [k \in 1..Len(chunks) |-> chunks[k].content]
IdSet(chunks) == {chunks[k].id : k \in 1..Len(chunks)}
SymDiff(A, B) == (A \ B) \cup (B \ A)

\* C3: whenever chunk_document returns, the contents of its chunks,
\* concatenated in order, are exactly the document.
C3_ConcatIsDocument ==
    out.kind = "ok" => Flatten(Contents(out.chunks)) = doc

\* C3 witness: a document with a multi-byte character was cut into several
\* chunks.
C3_Witness ==
    /\ out.kind = "ok"
    /\ Len(out.chunks) >= 3
    /\ \E k \in 1..Len(doc) : doc[k] >= 128

\* the size rule of C4 for one result
SizesWithin(p, chunks) ==
    /\ \A k \in 1..Len(chunks) : Len(chunks[k].content) <= p.max
    /\ \A k \in 1..(Len(chunks) - 1) : Len(chunks[k].content) >= p.min

\* C4 as stated: for every chunker with_params can build and every document
\* longer than min, every non-final chunk has min <= size <= max and no
\* chunk exceeds max.
C4_SizesForEveryChunker ==
    (out.kind = "ok" /\ Len(doc) > cp.min) => SizesWithin(cp, out.chunks)

\* C4 amended: the same for every chunker with min <= max and max >= 1.
C4_SizesWhenMinLeMax ==
    (out.kind = "ok" /\ Len(doc) > cp.min /\ cp.min <= cp.max /\ cp.max >= 1)
        => SizesWithin(cp, out.chunks)

\* C4 witness: a chunker with 1 <= min < target < max cut a longer document
\* into several chunks, one of them by a natural breakpoint below target.
C4_Witness ==
    /\ out.kind = "ok"
    /\ 1 <= cp.min /\ cp.min < cp.target /\ cp.target < cp.max
    /\ Len(doc) > cp.min
    /\ Len(out.chunks) >= 2
    /\ Len(out.chunks[1].content) < cp.target

\* C5 as stated, for the chunkers with 1 <= min <= target <= max: two
\* documents that differ only inside one window of at most target bytes have
\* chunk-id sets whose symmetric difference has at most 2 elements.
C5_BoundaryStability ==
    (/\ out.kind = "ok" /\ out2.kind = "ok"
     /\ 1 <= cp.min /\ cp.min <= cp.target /\ cp.target <= cp.max)
        => Cardinality(SymDiff(IdSet(out.chunks), IdSet(out2.chunks))) <= 2

\* -------------------------------------------------------------------------
\* Ranking
\* -------------------------------------------------------------------------
\* the indices of the embeddings whose score no other score exceeds
Maxima(embeddings) ==
    {i \in 1..Len(embeddings) :
        \A j \in 1..Len(embeddings) : embeddings[i].score >= embeddings[j].score}

\* C32: the path chosen as context is the path of the earliest embedding, in
\* storage order, whose score is at least every other score; a state without
\* embeddings gets no path chosen and no chat call.
C32_FirstMaximum ==
    /\ qbest # None =>
          /\ Maxima(qstate.embeddings) # {}
          /\ \E i \in Maxima(qstate.embeddings) :
                /\ \A j \in Maxima(qstate.embeddings) : i <= j
                /\ qbest[1] = qstate.embeddings[i].path
    /\ qstate.embeddings = <<>> =>
          /\ qbest = None
          /\ \A k \in 1..Len(qcalls) : qcalls[k] # "chat"

\* C32 witness: two embeddings of different paths have the highest score,
\* the path of the first was chosen and the chat call was made
C32_Witness ==
    /\ Len(qstate.embeddings) = 2
    /\ qstate.embeddings[1].score = qstate.embeddings[2].score
    /\ qstate.embeddings[1].path # qstate.embeddings[2].path
    /\ qbest = Some(qstate.embeddings[1].path)
    /\ \E k \in 1..Len(qcalls) : qcalls[k] = "chat"

\* -------------------------------------------------------------------------
\* Generator properties
\* -------------------------------------------------------------------------
\* a dependency with neither a path nor a git key
NoPathNoGit(d) == "path" \notin d.value.keys /\ "git" \notin d.value.keys

\* a name that starts with '.' or has a '/' or a '\' in it
PathLikeName(name) ==
    \/ Len(name) > 0 /\ name[1] = 46
    \/ \E k \in 1..Len(name) : name[k] \in {47, 92}

\* the generated object has one entry for each dependency of `wanted` and no
\* other entry, the ids differ, and each id contains the name of its
\* dependency with '_' replaced by '-'
OneEntryEach(wanted) ==
    /\ \A d \in wanted : Cardinality({e \in mcp_config : e.of = d}) = 1
    /\ \A e \in mcp_config : e.of \in wanted
    /\ \A e, f \in mcp_config : e.id = f.id => e = f
    /\ \A e \in mcp_config : contains(e.id, replace(e.of.name, Underscore, Hyphen))

\* C33 as stated: mcpServers has exactly one entry for each dependency, of
\* any section, that has neither a path nor a git key; the ids are pairwise
\* distinct and contain the crate name with '_' replaced by '-'.
C33_OnePerDependency ==
    gpc = "done" => OneEntryEach({d \in cargo_toml : NoPathNoGit(d)})

\* C33 amended: the same for the dependencies that have neither a path nor
\* a git key and whose name does not start with '.' and contains no '/' and
\* no '\'.
C33_OnePerNamedDependency ==
    gpc = "done" =>
        OneEntryEach({d \in cargo_toml : NoPathNoGit(d) /\ ~PathLikeName(d.name)})

\* C33 witness: a crate named in two sections got two entries, and a
\* dependency with a path key got none
C33_Witness ==
    /\ gpc = "done"
    /\ \E d, e \in cargo_toml :
          /\ d.name = e.name /\ d.section # e.section
          /\ \E x, y \in mcp_config : x.of = d /\ y.of = e /\ x.id # y.id
    /\ \E d \in cargo_toml :
          /\ "path" \in d.value.keys
          /\ \A x \in mcp_config : x.of # d

\* -------------------------------------------------------------------------
\* Chunk cache properties
\* -------------------------------------------------------------------------
\* C34: a call of get_embedding_for_chunk(c) that follows a successful call
\* for c returns the values of that call and requests nothing from the
\* endpoint, unless an I/O error of its own stopped it; and a call served
\* from a record is served from a record of its own content.
C34_RepeatServedFromCache ==
    (epc = "idle" /\ ecall.result.kind # "none") =>
        /\ (ecall.before # None /\ ~ecall.ioError) =>
              /\ ecall.result = Embedding(ecall.before[1])
              /\ ecall.requests = 0
        /\ (ecall.result.kind = "Ok" /\ ecall.requests = 0) =>
              /\ ecall.record # None
              /\ ecall.record[1].document = ecall.content

\* C34 witness: the endpoint answered the first call with 0.5, the second
\* call for the same content returned 0.5 without a request, while the
\* file of the other content holds a record that is not of that content
C34_Witness ==
    /\ epc = "idle"
    /\ ecall.before = Some(<<"0.5">>)
    /\ ecall.result = Embedding(<<"0.5">>)
    /\ ecall.requests = 0
    /\ \E c \in ChunkContents \ {ecall.content} :
          /\ cache_dir[cache_path(c)] # None
          /\ from_json(cache_dir[cache_path(c)][1]) # None
          /\ from_json(cache_dir[cache_path(c)][1])[1].document # c

\* the length of the longest common prefix of two byte strings
CommonPrefix(d, e) ==
    LET same == {n \in 0..Len(d) : n <= Len(e) /\ SubSeq(d, 1, n) = SubSeq(e, 1, n)}
    IN  CHOOSE n \in same : \A m \in same : m <= n

\* the offset at which the k-th chunk ends
RECURSIVE EndOffset(_, _)
EndOffset(chunks, k) ==
    IF k = 0 THEN 0 ELSE EndOffset(chunks, k - 1) + Len(chunks[k].content)

\* C31: when two documents agree on their first p bytes and both are
\* chunked, every non-final chunk of the first that ends at an offset <= p
\* is, with the same id and content, the chunk at the same position of the
\* second.
C31_PrefixStability ==
    (out.kind = "ok" /\ out2.kind = "ok") =>
        \A k \in 1..(Len(out.chunks) - 1) :
            EndOffset(out.chunks, k) <= CommonPrefix(doc, doc2)
                => /\ k <= Len(out2.chunks)
                   /\ out2.chunks[k] = out.chunks[k]

\* C31 witness: the first document has a non-final chunk inside the shared
\* prefix, and the second document differs from it after the prefix
C31_Witness ==
    /\ out.kind = "ok" /\ out2.kind = "ok"
    /\ doc2 # doc
    /\ Len(out.chunks) >= 2
    /\ EndOffset(out.chunks, 1) <= CommonPrefix(doc, doc2)
    /\ Len(doc2) > CommonPrefix(doc, doc2)
    /\ Len(doc) > CommonPrefix(doc, doc2)

\* -------------------------------------------------------------------------
\* Render properties
\* -------------------------------------------------------------------------
\* the immediate subdirectories of the output area that contain a file
\* index.html
WithIndex ==
    {i \in 1..Len(docdir.entries) :
        docdir.entries[i].kind = "dir" /\ docdir.entries[i].index = "file"}

\* C29: load_documents returns documents only when exactly one immediate
\* subdirectory of the output area contains index.html, and then they are
\* the documents of that subdirectory; with no such subdirectory or several
\* it returns an error and process_html_documents has not run.
C29_ExactlyOneDocsDir ==
    dpc = "done" =>
        /\ dres.kind = "Ok" =>
              /\ Cardinality(WithIndex) = 1
              /\ \A i \in WithIndex : dres.docs_path = EntryPath(i)
              /\ lpc = "done" /\ dres.documents = returned
        /\ Cardinality(WithIndex) # 1 =>
              /\ dres.kind = "Err"
              /\ lpc = "idle" /\ kept = <<>> /\ returned = <<>>

\* load_documents has returned an error for two subdirectories with
\* index.html, and documents for one such subdirectory among other entries
C29_Witness ==
    /\ dpc = "done"
    /\ \/ Cardinality(WithIndex) = 2 /\ dres = DocLoaderError("CargoLib")
       \/ /\ Cardinality(WithIndex) = 1 /\ Len(docdir.entries) = 2
          /\ dres.kind = "Ok" /\ dres.documents # <<>>


\* -------------------------------------------------------------------------
\* Totality
\* -------------------------------------------------------------------------
\* C30: chunk_document returns its chunks for every document and every
\* chunker (min, target, max): it never panics, also when a multi-byte
\* character lies across the offset where a boundary is placed.
C30_ChunkerTotal == out # NotRun => out.kind = "ok"

\* -------------------------------------------------------------------------
\* C35: cosine_similarity is 0 when a norm is zero, 1 for a non-zero vector
\* and itself, -1 for a non-zero vector and its negation, 0 for two
\* orthogonal vectors.
IntDot(a, b) == f32_to_int(dot(a, b))
NonZero(a) == \E i \in 1..Len(a) : a[i] # F32Zero
Negated(a) == [i \in 1..Len(a) |-> f32_from(0 - f32_to_int(a[i]))]

C35_CosineIdentities ==
    similarity # None =>
        /\ (~NonZero(v1) \/ ~NonZero(v2)) => similarity[1] = F32Zero
        /\ (NonZero(v1) /\ v2 = v1) => similarity[1] = f32_from(1)
        /\ (NonZero(v1) /\ v2 = Negated(v1)) => similarity[1] = f32_from(0 - 1)
        /\ IntDot(v1, v2) = 0 => similarity[1] = F32Zero

\* -------------------------------------------------------------------------
\* C36: once a store_embedding(c, v) of this process has returned Ok, and as
\* long as no later store_embedding for that key has begun, the in-memory
\* map holds v under the hash of c, whatever get_embedding calls run
\* alongside.
Storing(h) == \E t \in Threads : loc[t].op = "store" /\ loc[t].hash = h

C36_StoreNotUndone ==
    \A h \in Keys :
        (h \in written /\ lastOk[h] # None /\ ~Storing(h)) => mem[h] = lastOk[h]

\* -------------------------------------------------------------------------
\* C37: every vector of a crate in the registry has as many components as
\* the vectors of the configured embedding model, also when the cache holds
\* files written under another model.
C37_OneDimensionPerCrate ==
    \A name \in RegistryNames :
        crates[name] # None =>
            \A i \in 1..Len(crates[name][1].embeddings) :
                Len(crates[name][1].embeddings[i].vector) = Dimension

\* -------------------------------------------------------------------------
\* C38: when RustDocsServer::new has returned, the crates added before it
\* was called are gone (a crate in the registry was inserted since the call
\* began), the peer is unset, and available_crates is non-empty only if the
\* call enabled lazy loading.
C38_NewResets ==
    npc.step = "returned" =>
        /\ Loaded \subseteq fresh
        /\ server_peer = None
        /\ avail_crates # {} => npc.enable_lazy_loading
        /\ enable_lazy_loading = npc.enable_lazy_loading

\* new has returned without an add_crate alongside, after a crate had been
\* added: the registry is empty
C38_Witness ==
    /\ npc.step = "returned" /\ npc.before # {}
    /\ fresh = {}
    /\ Loaded = {}
    /\ avail_crates # {}

\* -------------------------------------------------------------------------
\* C39: in lazy mode load_crate_data is started at most once for a crate,
\* whatever the order of the steps of concurrent queries for it, and a query
\* that loaded it and succeeded leaves it loaded.
C39_IngestionOnce ==
    /\ \A n \in RegistryNames : loads[n] <= 1
    /\ \A q \in Queries :
          (qtask[q].step = "done" /\ qtask[q].how = "lazy" /\ qtask[q].result = "Ok")
              => crates[qtask[q].crate_name] # None

\* -------------------------------------------------------------------------
\* C40: the offsets find_chunk_boundaries returns are strictly increasing,
\* start above 0 and end at the length of the document; chunk_document,
\* when it returns, returns at least one chunk, and no empty chunk unless
\* the document is empty.
C40_ChunksNonEmpty ==
    out # NotRun =>
        LET boundaries == find_chunk_boundaries(cp, doc)
        IN  /\ \A k \in 1..(Len(boundaries) - 1) : boundaries[k] < boundaries[k + 1]
            /\ boundaries # <<>> =>
                  /\ boundaries[1] > 0
                  /\ boundaries[Len(boundaries)] = Len(doc)
            /\ out.kind = "ok" =>
                  /\ out.chunks # <<>>
                  /\ doc # <<>> =>
                        \A k \in 1..Len(out.chunks) : out.chunks[k].content # <<>>
                  /\ (Len(doc) > cp.min /\ boundaries # <<>>) =>
                        Len(out.chunks) = Len(boundaries)

\* a document was cut into several chunks, the last boundary being the closing
\* push of the document length
C40_Witness ==
    /\ out # NotRun /\ out.kind = "ok"
    /\ Len(out.chunks) >= 2
    /\ BoundaryLoop(doc, cp, 0, 0, 0, <<>>) # find_chunk_boundaries(cp, doc)

====
